---- MODULE Spec2Model ----
(***************************************************************************)
(* Model of the workflow engine of backend/workflow/workflow_runner.py:    *)
(* WorkflowRunner.execute / execute_stream / _execute_graph /              *)
(* _execute_node / _execute_with_retry / cancel_execution.                 *)
(*                                                                         *)
(* The runner is an asyncio program: one event loop, cooperative tasks.    *)
(* Every action below is the code that one task runs between two           *)
(* suspension points (an await that really suspends, or a yield of the     *)
(* async generator).  The registered callbacks are the ones the            *)
(* repository installs (None, or the stream's queue put); they do not      *)
(* raise.                                                                  *)
(*                                                                         *)
(* The pure functions of backend/workflow/n8n_parser.py,                   *)
(* validate_manus_workflow and ManusWorkflow.get_execution_order, are      *)
(* operators; ParserSpec applies them to a bounded set of documents.       *)
(***************************************************************************)
EXTENDS Integers, Sequences, FiniteSets, TLC

\* ------------------------------------------------------------------ bounds
\* largest retry_count given to the custom skill "flaky"
MaxRetryCount == 2
\* largest value of WorkflowRunner.max_parallel_nodes that is explored
MaxParallel == 2
\* heartbeats a stream may emit while its execution is still running
MaxHeartbeats == 1
\* longest edge list of a workflow document handed to the parser module
MaxEdges == 3
\* calls of the workflow manager in one run
MaxCalls == 4
\* calls of the skill registry after its construction
MaxRegistryCalls == 3
\* calls of convert_n8n_to_manus on one n8n document
MaxConversions == 2

\* ------------------------------------------------------- program constants
\* SkillDefinition.timeout default
DefaultTimeout == 300
\* SkillDefinition.retry_count default
DefaultRetryCount == 0

\* WorkflowStatus
WorkflowStatus == {"pending", "running", "completed", "failed", "cancelled", "paused"}
\* NodeExecutionStatus
NodeExecutionStatus == {"pending", "queued", "running", "success", "failed", "skipped"}

\* Python None for a datetime field, and for a string field
NoTime == -1
None == "None"
EmptyDict == [k \in {} |-> ""]

\* NodeExecution(node_id=..., status=PENDING) with the dataclass defaults
NodeExecution(node_id) ==
    [node_id |-> node_id, status |-> "pending", started_at |-> NoTime,
     completed_at |-> NoTime, inputs |-> EmptyDict, outputs |-> EmptyDict,
     error |-> None, logs |-> <<>>, retry_count |-> 0]

\* ------------------------------------------------------------ the registry
\* The skills the registry resolves: a seeded standard skill (default
\* retry_count) and a registered custom skill whose retry_count is r.
SkillRegistry(r) ==
    [id \in {"http_request", "flaky"} |->
        IF id = "http_request"
        THEN [id |-> id, timeout |-> DefaultTimeout, retry_count |-> DefaultRetryCount]
        ELSE [id |-> id, timeout |-> 1, retry_count |-> r]]

\* skill_registry.get(skill_id) returns a skill (not None)
SkillFound(reg, skill_id) == skill_id \in DOMAIN reg

\* ----------------------------------------------------------- the workflows
Node(id, skill_id, parameters) ==
    [id |-> id, skill_id |-> skill_id, parameters |-> parameters]
Edge(s, t) == [source |-> s, target |-> t]

\* A -> B -> C, A a trigger (no skill_id), as in scenario S1/S3/S5
WfChain ==
    [id |-> "chain",
     nodes |-> << Node("A", "", EmptyDict), Node("B", "flaky", EmptyDict),
                  Node("C", "http_request", [url |-> "u"]) >>,
     edges |-> {Edge("A", "B"), Edge("B", "C")}]
\* A -> B, A -> C, B -> D, C -> D, scenario S2
WfDiamond ==
    [id |-> "diamond",
     nodes |-> << Node("A", "", EmptyDict), Node("B", "http_request", EmptyDict),
                  Node("C", "http_request", EmptyDict),
                  Node("D", "http_request", EmptyDict) >>,
     edges |-> {Edge("A", "B"), Edge("A", "C"), Edge("B", "D"), Edge("C", "D")}]
\* three independent nodes, one with a parameter named as the output key of
\* the skills, one with a skill_id the registry does not know
WfFan ==
    [id |-> "fan",
     nodes |-> << Node("A", "http_request", EmptyDict),
                  Node("B", "flaky", [result |-> "own"]),
                  Node("C", "no_such_skill", EmptyDict) >>,
     edges |-> {}]
\* A -> B -> C -> B: a cycle
WfCycle ==
    [id |-> "cycle",
     nodes |-> << Node("A", "", EmptyDict), Node("B", "http_request", EmptyDict),
                  Node("C", "http_request", EmptyDict) >>,
     edges |-> {Edge("A", "B"), Edge("B", "C"), Edge("C", "B")}]
\* an edge whose source is no node, and one whose target is no node
WfDangling ==
    [id |-> "dangling",
     nodes |-> << Node("A", "", EmptyDict), Node("B", "http_request", EmptyDict) >>,
     edges |-> {Edge("Z", "B"), Edge("A", "Y")}]
\* A and B independent, A -> C: C becomes ready when A ends, whatever B does
WfStagger ==
    [id |-> "stagger",
     nodes |-> << Node("A", "", EmptyDict), Node("B", "http_request", EmptyDict),
                  Node("C", "http_request", EmptyDict) >>,
     edges |-> {Edge("A", "C")}]
\* no nodes at all
WfEmpty == [id |-> "empty", nodes |-> <<>>, edges |-> {}]

\* The runs that are explored: a workflow, the runner's max_parallel_nodes,
\* the retry_count of the custom skill, and whether a workflow_complete
\* callback is registered.
Config(w, m, r, cb) ==
    [workflow |-> w, max_parallel_nodes |-> m, retry_count |-> r,
     on_workflow_complete |-> cb]
Configurations ==
    {Config(WfChain, 1, r, "user") : r \in 0..MaxRetryCount}
    \cup {Config(WfDiamond, m, 0, "user") : m \in 1..MaxParallel}
    \cup {Config(WfFan, m, IF m = 1 THEN 1 ELSE 0, "user") : m \in 1..(MaxParallel - 1)}
    \cup {Config(w, 1, 0, cb) : w \in {WfCycle, WfDangling, WfEmpty},
                                cb \in {"None", "user"}}

\* ------------------------------------------------------------ pure helpers
Range(s) == {s[i] : i \in DOMAIN s}
Min(a, b) == IF a < b THEN a ELSE b
Max(a, b) == IF a > b THEN a ELSE b

\* workflow.get("nodes", []) as the ordered list of ids
NodeIdSeq(w) == [i \in DOMAIN w.nodes |-> w.nodes[i].id]
\* nodes_by_id = {node["id"]: node for node in workflow.get("nodes", [])}
NodesById(w) ==
    [n \in Range(NodeIdSeq(w)) |->
        w.nodes[CHOOSE i \in DOMAIN w.nodes :
                    /\ w.nodes[i].id = n
                    /\ \A j \in DOMAIN w.nodes : w.nodes[j].id = n => j <= i]]

\* _build_execution_graph: node id -> set of the sources of its incoming edges
BuildExecutionGraph(w) ==
    [n \in Range(NodeIdSeq(w)) |->
        {e.source : e \in {e \in w.edges : e.target = n}}]

\* Python list slice s[:m] (a negative m counts from the end)
SliceTo(s, m) ==
    LET k == IF m >= 0 THEN Min(m, Len(s)) ELSE Max(Len(s) + m, 0)
    IN  SubSeq(s, 1, k)


\* ------------------------------------------------------------------- state
VARIABLES
    workflow,              \* the workflow dictionary handed to execute
    max_parallel_nodes,    \* WorkflowRunner.max_parallel_nodes
    skill_registry,        \* WorkflowRunner.skill_registry: skill id -> definition
    executions,            \* WorkflowRunner._executions: execution id -> WorkflowExecution
    on_node_complete,      \* WorkflowRunner._on_node_complete
    on_workflow_complete,  \* WorkflowRunner._on_workflow_complete
    pc,                    \* where the execute coroutine is
    completed,             \* _execute_graph: completed
    running,               \* _execute_graph: running
    tasks,                 \* _execute_graph: tasks of the current iteration (node ids)
    awaiting,              \* _execute_graph: index in tasks of the task being awaited
    node_pc,               \* where each node's _execute_node task is
    attempt,               \* _execute_with_retry: attempt, per node
    gen_pc,                \* where the execute_stream generator is
    update_queue,          \* execute_stream: update_queue
    original_callback,     \* execute_stream: original_callback
    stream,                \* the records the generator has yielded to its observer
    now,                   \* the clock datetime.now() reads
    invocations,           \* history: calls of skill.execute, per node
    heartbeats,            \* history: heartbeats yielded while the execution ran
    workflow_complete_fired, \* history: calls of the workflow_complete callback
    last_cancel,           \* history: argument and return value of the last
                           \* call of cancel_execution
    backoff,               \* _execute_with_retry: seconds of the backoff sleep a
                           \* node's envelope is in (0: not sleeping)
    prepared_from,         \* history: the completed set _prepare_inputs was
                           \* called with, per node
    last_outcome,          \* history: how the attempt of a node that ended last
                           \* ended, until its next attempt starts
    document,              \* the workflow document handed to the parser module
    called,                \* the functions of the parser module that have returned
    errors,                \* what validate_manus_workflow returned
    execution_order,       \* what get_execution_order returned
    raised,                \* the exception get_execution_order raised, if any
    manager_workflows,     \* WorkflowManager._workflows: workflow id -> document
    uuid_count,            \* the ids uuid.uuid4() has been asked for by the manager
    manager_call,          \* history: the last call of the manager, its id
                           \* argument and what it returned, and the calls so far
    manager_doc,           \* history: the document that call was given, or
                           \* returned (a list of at most one)
    registry_skills,       \* SkillRegistry._skills: skill id -> skill class, as
                           \* the list of its items in the order of the dict
    instance_count,        \* the skill instances that have been constructed
    registered,            \* history: the skill classes given to register
    registry_call,         \* history: the last call of the registry, its id
                           \* argument, and the calls so far
    registry_returned,     \* history: what that call returned (get: a list of
                           \* at most one instance)
    n8n_data,              \* the n8n document handed to the importer
    converted,             \* the workflows convert_n8n_to_manus returned for it
    import_response,       \* what the import route answered (a list of at
                           \* most one)
    shared_callback,       \* WorkflowRunner._on_node_complete of a runner that
                           \* several calls use at once
    calls,                 \* the execute_stream and execute calls on that
                           \* runner: per call its generator, its task and
                           \* what it has yielded
    registered_callback    \* history: the callback on_node_complete was given
                           \* before the first of those calls

sched_vars == << pc, completed, running, tasks, awaiting >>
node_vars == << node_pc, attempt, invocations, backoff, last_outcome, prepared_from >>
stream_vars == << gen_pc, update_queue, original_callback, stream, heartbeats >>
cancel_vars == << last_cancel >>
parser_vars == << document, called, errors, execution_order, raised >>
manager_vars == << manager_workflows, uuid_count, manager_call, manager_doc >>
registry_vars == << registry_skills, instance_count, registered, registry_call,
                    registry_returned >>
importer_vars == << n8n_data, converted, import_response >>
overlap_vars == << shared_callback, calls, registered_callback >>
config_vars == << workflow, max_parallel_nodes, skill_registry, on_workflow_complete >>
runner_vars == << config_vars, executions, on_node_complete, sched_vars, node_vars,
                  stream_vars, now, workflow_complete_fired, cancel_vars >>
vars == << workflow, max_parallel_nodes, skill_registry, executions, on_node_complete,
           on_workflow_complete, pc, completed, running, tasks, awaiting, node_pc,
           attempt, gen_pc, update_queue, original_callback, stream, now,
           invocations, heartbeats, workflow_complete_fired, last_cancel,
           backoff, last_outcome, prepared_from, document, called, errors, execution_order, raised,
           manager_workflows, uuid_count, manager_call, manager_doc,
           registry_skills, instance_count, registered, registry_call,
           registry_returned, n8n_data, converted, import_response,
           shared_callback, calls, registered_callback >>

\* f"exec_{uuid.uuid4().hex[:12]}": the id of the execution that is run, and an
\* id no execution has
ExecId == "exec_1"
UnknownId == "exec_0"
AllNodeIds == {"A", "B", "C", "D"}

\* the parser module before any of its functions is called on doc
ParserIdle(doc) ==
    /\ document = doc
    /\ called = {}
    /\ errors = <<>>
    /\ execution_order = <<>>
    /\ raised = None

\* WorkflowManager.__init__: nothing is stored
ManagerIdle ==
    /\ manager_workflows = [id \in {} |-> <<>>]
    /\ uuid_count = 0
    /\ manager_call = [op |-> None, id |-> None, returned |-> None, calls |-> 0]
    /\ manager_doc = <<>>

\* d[k] = v on a dict held as the list of its items: the value of a key that
\* is present is replaced where it is, a new key goes to the end
DictSetItem(d, k, v) ==
    IF \E i \in DOMAIN d : d[i].key = k
    THEN [i \in DOMAIN d |-> IF d[i].key = k THEN [key |-> k, value |-> v] ELSE d[i]]
    ELSE Append(d, [key |-> k, value |-> v])
\* d.get(k) on such a dict: a list of at most one value
DictGetItem(d, k) ==
    LET found == SelectSeq(d, LAMBDA item : item.key = k)
    IN  [i \in DOMAIN found |-> found[i].value]

\* a skill class, and the id of the definition of its instances
SkillClass(name, id) == [name |-> name, id |-> id]
\* the classes _register_default_skills registers, in its order
DefaultSkills ==
    << SkillClass("DynamicPlannerSkill", "dynamic_planner"),
       SkillClass("DataExtractorSkill", "data_extractor"),
       SkillClass("DocumentSummarizerSkill", "document_summarizer"),
       SkillClass("BrowserOperatorSkill", "browser_operator"),
       SkillClass("WideResearcherSkill", "wide_researcher"),
       SkillClass("HTTPRequestSkill", "http_request"),
       SkillClass("PythonSandboxSkill", "python_sandbox"),
       SkillClass("BashCommanderSkill", "bash_commander"),
       SkillClass("FileManagerSkill", "file_manager"),
       SkillClass("N8NWebhookSkill", "n8n_webhook"),
       SkillClass("DatabaseOperatorSkill", "database_operator") >>

\* mutant: a skill that is registered again goes to the end of the dict
RegisterMovesToEnd(skills, skill_class) ==
    SelectSeq(skills, LAMBDA item : item.key # skill_class.id)
        \o << [key |-> skill_class.id, value |-> skill_class] >>

\* register: self._skills[skill_id] = skill_class
Register(skills, skill_class) == DictSetItem(skills, skill_class.id, skill_class)

\* _register_default_skills: register for each of the classes
RECURSIVE RegisterAll(_, _)
RegisterAll(skills, classes) ==
    IF classes = <<>> THEN skills
    ELSE RegisterAll(Register(skills, Head(classes)), Tail(classes))

\* SkillRegistry(): the registry after the first construction
RegistryIdle ==
    /\ registry_skills = RegisterAll(<<>>, DefaultSkills)
    /\ instance_count = Len(DefaultSkills)
    /\ registered = DefaultSkills
    /\ registry_call = [op |-> None, id |-> None, calls |-> 0]
    /\ registry_returned = <<>>

\* the importer before it is handed a document
ImporterIdle ==
    /\ n8n_data = EmptyDict
    /\ converted = <<>>
    /\ import_response = <<>>

\* the calls that overlap on one runner, the nodes each of them runs (a chain
\* of two nodes whose skills succeed), the id uuid4 gives its execution and
\* the on_node_update closure its execute_stream defines
Calls == {1, 2}
CallNodes == << << "A", "B" >>, << "C", "D" >> >>
CallExecId == << "exec_1", "exec_2" >>
OnNodeUpdate == << "on_node_update_1", "on_node_update_2" >>
NoCall ==
    [kind |-> "none", gen_pc |-> "none", task |-> "none", completed |-> 0,
     update_queue |-> <<>>, original_callback |-> None, stream |-> <<>>,
     heartbeats |-> 0]

\* a runner on which neither call has been made, its callback `callback`
OverlapIdleWith(callback) ==
    /\ shared_callback = callback
    /\ registered_callback = callback
    /\ calls = [c \in Calls |-> NoCall]
OverlapIdle == OverlapIdleWith(None)

\* WorkflowRunner.__init__ with configuration c and the state before execute
\* is called
RunnerIdle(c) ==
    /\ workflow = c.workflow
    /\ max_parallel_nodes = c.max_parallel_nodes
    /\ skill_registry = SkillRegistry(c.retry_count)
    /\ on_workflow_complete = c.on_workflow_complete
    /\ executions = [id \in {} |-> <<>>]
    /\ on_node_complete = None
    /\ pc = "idle"
    /\ completed = {}
    /\ running = {}
    /\ tasks = <<>>
    /\ awaiting = 0
    /\ node_pc = [n \in AllNodeIds |-> "none"]
    /\ attempt = [n \in AllNodeIds |-> 0]
    /\ gen_pc = "none"
    /\ update_queue = <<>>
    /\ original_callback = None
    /\ stream = <<>>
    /\ now = 0
    /\ invocations = [n \in AllNodeIds |-> 0]
    /\ heartbeats = 0
    /\ workflow_complete_fired = 0
    /\ last_cancel = [id |-> None, returned |-> FALSE]
    /\ backoff = [n \in AllNodeIds |-> 0]
    /\ last_outcome = [n \in AllNodeIds |-> None]
    /\ prepared_from = [n \in AllNodeIds |-> {}]

\* a runner in one of the explored configurations; the parser is not used
Init ==
    /\ \E c \in Configurations : RunnerIdle(c)
    /\ ParserIdle(EmptyDict)
    /\ ManagerIdle
    /\ RegistryIdle
    /\ ImporterIdle
    /\ OverlapIdle

\* ------------------------------------------------- execute / _execute_graph
\* the WorkflowExecution that execute creates, with one pending NodeExecution
\* per node
NewExecution(w, execution_id) ==
    [execution_id |-> execution_id, workflow_id |-> w.id, status |-> "running",
     started_at |-> now, completed_at |-> NoTime,
     node_executions |-> [n \in Range(NodeIdSeq(w)) |-> NodeExecution(n)],
     context |-> EmptyDict, error |-> None]

\* self._executions[execution_id] = execution, and every later write through
\* the execution object, which the table holds by reference
Store(ex) ==
    [id \in DOMAIN executions \cup {ExecId} |->
        IF id = ExecId THEN ex ELSE executions[id]]

\* mutant: the dependency test is left out
ReadyListNoDeps(w, graph, done, run) ==
    SelectSeq(NodeIdSeq(w), LAMBDA n : n \notin done /\ n \notin run)

\* mutant: only a dependency that succeeded counts as completed
ReadyListSuccessOnly(w, graph, done, run) ==
    SelectSeq(NodeIdSeq(w),
              LAMBDA n : /\ n \notin done
                         /\ n \notin run
                         /\ graph[n] \subseteq
                              {d \in done : executions[ExecId].node_executions[d].status
                                                = "success"})

\* mutant: a completed node counts as ready again
ReadyListAgain(w, graph, done, run) ==
    SelectSeq(NodeIdSeq(w), LAMBDA n : n \notin run /\ graph[n] \subseteq done)

\* the ready list of one scheduling iteration, in dict (node insertion) order
ReadyList(w, graph, done, run) ==
    SelectSeq(NodeIdSeq(w),
              LAMBDA n : n \notin done /\ n \notin run /\ graph[n] \subseteq done)

\* mutant: the loop ends one node early
LoopContinuesShort(w, done) ==
    Cardinality(done) + 1 < Cardinality(DOMAIN NodesById(w))

\* while len(completed) < len(nodes_by_id)
LoopContinues(w, done) == Cardinality(done) < Cardinality(DOMAIN NodesById(w))

\* mutant: every ready node is started
ToStartAll(ready, run) == ready

\* mutant: no ready node is started
ToStartNone(ready, run) == <<>>

\* mutant: the nodes at the end of the ready list are started
ToStartFromEnd(ready, run) ==
    LET k == Min(Len(ready), max_parallel_nodes - Cardinality(run))
    IN  SubSeq(ready, Len(ready) - k + 1, Len(ready))

\* to_start = ready[:self.max_parallel_nodes - len(running)]
ToStart(ready, run) == SliceTo(ready, max_parallel_nodes - Cardinality(run))

\* mutant: the except clause reports the execution as completed
ExceptStatusCompleted == "completed"

\* except Exception as e: execution.status = WorkflowStatus.FAILED
ExceptStatus == "failed"

\* mutant: execute returns without the workflow_complete callback
ExecuteReturnsSilently(ex, status, error) ==
    /\ executions' = Store([ex EXCEPT !.status = status, !.error = error,
                                       !.completed_at = now])
    /\ pc' = "done"
    /\ UNCHANGED << tasks, awaiting, node_pc, workflow_complete_fired >>

\* the end of execute: the status the try block or an except clause sets,
\* completed_at, the workflow_complete callback, return
ExecuteReturns(ex, status, error) ==
    /\ executions' = Store([ex EXCEPT !.status = status, !.error = error,
                                       !.completed_at = now])
    /\ workflow_complete_fired' =
            IF on_workflow_complete # None THEN workflow_complete_fired + 1
            ELSE workflow_complete_fired
    /\ pc' = "done"
    /\ UNCHANGED << tasks, awaiting, node_pc >>

\* _execute_graph from the top of its while loop to its next suspension, and
\* what execute does when _execute_graph returns or raises
ExecuteGraphLoopIn(w, ex, done, run) ==
    LET graph == BuildExecutionGraph(w)
        ready == ReadyList(w, graph, done, run)
        to_start == ToStart(ready, run)
    IN  /\ completed' = done
        /\ IF ~LoopContinues(w, done)
           THEN /\ ExecuteReturns(ex, "completed", ex.error)
                /\ running' = run
           ELSE IF ready = <<>>
           THEN IF run # {}
                THEN \* await asyncio.sleep(0.1); continue
                     /\ pc' = "sleep"
                     /\ running' = run
                     /\ executions' = Store(ex)
                     /\ UNCHANGED << tasks, awaiting, node_pc, workflow_complete_fired >>
                ELSE \* raise RuntimeError, caught by execute
                     /\ ExecuteReturns(ex, ExceptStatus, "Workflow deadlock detected")
                     /\ running' = run
           ELSE /\ running' = run \cup Range(to_start)
                /\ tasks' = to_start
                /\ awaiting' = 1
                /\ node_pc' = [n \in AllNodeIds |->
                        IF n \in Range(to_start) THEN "created" ELSE node_pc[n]]
                \* with nothing to start the loop repeats without suspending
                /\ pc' = IF to_start = <<>> THEN "spin" ELSE "await"
                /\ executions' = Store(ex)
                /\ UNCHANGED workflow_complete_fired

\* the same for the workflow the runner holds
ExecuteGraphLoop(ex, done, run) == ExecuteGraphLoopIn(workflow, ex, done, run)

\* execute: the execution record is created and stored, the graph is built and
\* _execute_graph runs up to its first suspension
ExecuteBody ==
    /\ ExecuteGraphLoop(NewExecution(workflow, ExecId), {}, {})
    /\ now' = now + 1

\* the direct call: await runner.execute(workflow)
Execute ==
    /\ pc = "idle"
    /\ gen_pc = "none"
    /\ ExecuteBody
    /\ UNCHANGED << parser_vars, manager_vars, registry_vars, importer_vars, overlap_vars,
                    config_vars, on_node_complete, attempt, invocations,
                    backoff, last_outcome, prepared_from, stream_vars, cancel_vars >>

\* the task that execute_stream created runs execute for the first time
ExecuteTaskStart ==
    /\ pc = "scheduled"
    /\ ExecuteBody
    /\ UNCHANGED << parser_vars, manager_vars, registry_vars, importer_vars, overlap_vars,
                    config_vars, on_node_complete, attempt, invocations,
                    backoff, last_outcome, prepared_from, stream_vars, cancel_vars >>

\* mutant: the scheduler does not wait for the other tasks of the iteration
DonePrefixEndAll(ts, from) == Len(ts)

\* the tasks of the current iteration that are done, counted from the one
\* being awaited: awaiting a finished task does not suspend
DonePrefixEnd(ts, from) ==
    LET stops == {i \in from..Len(ts) : node_pc[ts[i]] # "done"}
    IN  IF stops = {} THEN Len(ts)
        ELSE (CHOOSE i \in stops : \A j \in stops : i <= j) - 1

\* _execute_graph resumes: the awaited task has finished (or the idle sleep
\* has elapsed); running.discard / completed.add for every finished task in
\* turn, then the next loop iteration, or the end of execute
SchedulerResume ==
    /\ pc \in {"await", "sleep"}
    /\ pc = "await" => /\ node_pc[tasks[awaiting]] = "done"
                       /\ \A i \in DOMAIN tasks : node_pc[tasks[i]] # "created"
    /\ LET last == IF pc = "await" THEN DonePrefixEnd(tasks, awaiting) ELSE Len(tasks)
           finished == IF pc = "await" THEN {tasks[i] : i \in awaiting..last} ELSE {}
           done == completed \cup finished
           run == running \ finished
       IN  IF last < Len(tasks)
           THEN /\ awaiting' = last + 1
                /\ completed' = done
                /\ running' = run
                /\ UNCHANGED << pc, tasks, node_pc, executions, workflow_complete_fired >>
           ELSE ExecuteGraphLoop(executions[ExecId], done, run)
    /\ UNCHANGED << parser_vars, manager_vars, registry_vars, importer_vars, overlap_vars,
                    config_vars, on_node_complete, attempt, invocations,
                    backoff, last_outcome, prepared_from, stream_vars, now,
                    cancel_vars >>

\* ------------------------------------------- _execute_node / _prepare_inputs
\* mutant: an upstream output replaces a value that is already in inputs
MergePreferOutputs(a, b) ==
    [k \in DOMAIN a \cup DOMAIN b |-> IF k \in DOMAIN b THEN b[k] ELSE a[k]]

\* for key, value in prev_outputs.items(): if key not in inputs: insert
Merge(a, b) ==
    [k \in DOMAIN a \cup DOMAIN b |-> IF k \in DOMAIN a THEN a[k] ELSE b[k]]

\* the orders in which "for prev_node_id in completed" can visit a set
Orders(S) ==
    {o \in [1..Cardinality(S) -> S] : \A i, j \in DOMAIN o : o[i] = o[j] => i = j}

RECURSIVE MergeInOrder(_, _, _)
MergeInOrder(inputs, ex, order) ==
    IF order = <<>> THEN inputs
    ELSE MergeInOrder(Merge(inputs, ex.node_executions[Head(order)].outputs),
                      ex, Tail(order))

\* _prepare_inputs: the node's parameters, then every output key of a
\* completed node that is not yet in inputs; one result per visiting order
PrepareInputs(node, ex, done) ==
    {MergeInOrder(node.parameters, ex, o) : o \in Orders(done)}

\* mutant: the message does not give the deadline
TimedOutResultNoSeconds(timeout) ==
    [status |-> "failed", outputs |-> EmptyDict, error |-> "Execution timed out",
     logs |-> << "Execution timed out" >>]

\* except asyncio.TimeoutError: the result that is synthesised
TimedOutResult(timeout) ==
    [status |-> "failed", outputs |-> EmptyDict,
     error |-> "Execution timed out after " \o ToString(timeout) \o "s",
     logs |-> << "Execution timed out" >>]

\* what one attempt of skill.execute under asyncio.wait_for ends with
SkillResult(n, outcome, timeout) ==
    CASE outcome = "success" ->
            [status |-> "success", outputs |-> [result |-> n], error |-> None,
             logs |-> << "done" >>]
      [] outcome = "failed" ->
            [status |-> "failed", outputs |-> EmptyDict, error |-> "skill failed",
             logs |-> << "failed", "gave up" >>]
      [] OTHER -> TimedOutResult(timeout)

\* the ways an attempt can end that are explored for each skill: the seeded
\* skill returns a result; the custom skill may also run into the deadline of
\* wait_for, raise an exception, or raise asyncio.TimeoutError itself, which
\* the except asyncio.TimeoutError clause around wait_for catches as well
Outcomes(skill_id) ==
    IF skill_id = "flaky"
    THEN {"success", "failed", "timeout", "raise", "raise_timeout"}
    ELSE {"success", "failed"}
AllOutcomes == {"success", "failed", "timeout", "raise", "raise_timeout"}
\* str(e) of the exception the custom skill raises
ExceptionMessage(outcome) ==
    IF outcome = "raise" THEN "skill raised" ELSE "skill timed out"

SetNode(ex, n, ne) == [ex EXCEPT !.node_executions[n] = ne]
\* mutant: the context is replaced by the entry of the node
SetContextOnly(ex, n, outs) == [ex EXCEPT !.context = [k \in {n} |-> outs]]

\* execution.context[node_id] = result.outputs
SetContext(ex, n, outs) ==
    [ex EXCEPT !.context = [k \in DOMAIN ex.context \cup {n} |->
                                IF k = n THEN outs ELSE ex.context[k]]]

\* Python list slice s[-k:]
LastN(s, k) == SubSeq(s, Max(Len(s) - k, 0) + 1, Len(s))

\* the record on_node_update puts on the queue
NodeUpdate(ne) ==
    [type |-> "node_update", execution_id |-> ExecId, node_id |-> ne.node_id,
     status |-> ne.status, outputs |-> ne.outputs, error |-> ne.error,
     logs |-> LastN(ne.logs, 5)]

\* if self._on_node_complete: await self._on_node_complete(node_exec)
NotifyNodeComplete(ne) ==
    update_queue' = IF on_node_complete = "stream"
                    THEN Append(update_queue, NodeUpdate(ne))
                    ELSE update_queue

\* the node has no skill_id: SUCCESS, completed_at, return
TriggerReturns(ex, n, ne) ==
    /\ executions' = Store(SetNode(ex, n,
            [ne EXCEPT !.status = "success", !.completed_at = now]))
    /\ UNCHANGED update_queue

\* mutant: the except clause returns without the callback
NodeRaisedSilently(ex, n, ne, message) ==
    /\ executions' = Store(SetNode(ex, n,
            [ne EXCEPT !.status = "failed", !.error = message,
                       !.completed_at = now]))
    /\ UNCHANGED update_queue

\* except Exception as e: FAILED, error, completed_at; then the callback
NodeRaised(ex, n, ne, message) ==
    LET failed == [ne EXCEPT !.status = "failed", !.error = message,
                             !.completed_at = now]
    IN  /\ executions' = Store(SetNode(ex, n, failed))
        /\ NotifyNodeComplete(failed)

\* status of the node from the skill result
NodeStatusOf(result) == IF result.status = "success" THEN "success" ELSE "failed"

\* _execute_with_retry returned result: the execution state is updated, the
\* context is written; then the callback
NodeReturned(ex, n, ne, result) ==
    LET final == [ne EXCEPT !.status = NodeStatusOf(result),
                            !.outputs = result.outputs, !.error = result.error,
                            !.logs = result.logs, !.completed_at = now]
    IN  /\ executions' = Store(SetContext(SetNode(ex, n, final), n, result.outputs))
        /\ NotifyNodeComplete(final)

\* max_retries = skill.definition.retry_count
MaxRetries(skill) == skill.retry_count

\* a node task runs for the first time: RUNNING, started_at, then the trigger
\* shortcut, the skill lookup, the inputs, and the first skill.execute
NodeStart(n) ==
    /\ node_pc[n] = "created"
    /\ \A i \in DOMAIN tasks :
            node_pc[tasks[i]] = "created" =>
                \A j \in DOMAIN tasks : tasks[j] = n => j <= i
    /\ LET ex == executions[ExecId]
           node == NodesById(workflow)[n]
           ne == [ex.node_executions[n] EXCEPT !.status = "running",
                                               !.started_at = now]
       IN  IF node.skill_id = ""
           THEN /\ TriggerReturns(ex, n, ne)
                /\ node_pc' = [node_pc EXCEPT ![n] = "done"]
                /\ UNCHANGED << attempt, invocations >>
           ELSE IF ~SkillFound(skill_registry, node.skill_id)
           THEN /\ NodeRaised(ex, n, ne, "Skill not found: " \o node.skill_id)
                /\ node_pc' = [node_pc EXCEPT ![n] = "done"]
                /\ UNCHANGED << attempt, invocations >>
           ELSE \E inputs \in PrepareInputs(node, ex, completed) :
                  LET ne2 == [ne EXCEPT !.inputs = inputs]
                  IN  IF MaxRetries(skill_registry[node.skill_id]) + 1 <= 0
                      THEN \* range() is empty, last_result is None
                           /\ NodeRaised(ex, n, ne2,
                                  "'NoneType' object has no attribute 'status'")
                           /\ node_pc' = [node_pc EXCEPT ![n] = "done"]
                           /\ UNCHANGED << attempt, invocations >>
                      ELSE /\ executions' = Store(SetNode(ex, n, ne2))
                           /\ node_pc' = [node_pc EXCEPT ![n] = "exec"]
                           /\ attempt' = [attempt EXCEPT ![n] = 0]
                           /\ invocations' = [invocations EXCEPT ![n] = @ + 1]
                           /\ UNCHANGED update_queue
    /\ prepared_from' =
            IF /\ NodesById(workflow)[n].skill_id # ""
               /\ SkillFound(skill_registry, NodesById(workflow)[n].skill_id)
            THEN [prepared_from EXCEPT ![n] = completed]
            ELSE prepared_from
    /\ now' = now + 1
    /\ UNCHANGED << parser_vars, manager_vars, registry_vars, importer_vars, overlap_vars,
                    config_vars, on_node_complete, sched_vars, gen_pc,
                    original_callback, stream, heartbeats, backoff, last_outcome,
                    workflow_complete_fired, cancel_vars >>

\* mutant: the backoff doubles from two seconds
BackoffDelayFromTwo(att) == 2 ^ (att + 1)

\* asyncio.sleep(2 ** attempt): the seconds of the backoff after attempt att
BackoffDelay(att) == 2 ^ att

\* mutant: off by one, one attempt too many
AttemptsRemainOneMore(skill, att) == att <= skill.retry_count

\* if attempt < max_retries: another attempt follows the backoff sleep
AttemptsRemain(skill, att) == att < MaxRetries(skill)

\* one attempt of skill.execute ends: it returned success, returned failed,
\* ran into the deadline of wait_for, or raised
SkillReturns(n, outcome) ==
    /\ node_pc[n] = "exec"
    /\ outcome \in Outcomes(NodesById(workflow)[n].skill_id)
    /\ LET ex == executions[ExecId]
           skill == skill_registry[NodesById(workflow)[n].skill_id]
           ne == ex.node_executions[n]
           result == SkillResult(n, outcome, skill.timeout)
           counted == [ne EXCEPT !.retry_count = attempt[n] + 1]
       IN  IF outcome = "raise"
           THEN /\ NodeRaised(ex, n, ne, ExceptionMessage(outcome))
                /\ node_pc' = [node_pc EXCEPT ![n] = "done"]
                /\ UNCHANGED backoff
           ELSE IF outcome = "success"
           THEN /\ NodeReturned(ex, n, ne, result)
                /\ node_pc' = [node_pc EXCEPT ![n] = "done"]
                /\ UNCHANGED backoff
           ELSE IF AttemptsRemain(skill, attempt[n])
           THEN \* await asyncio.sleep(2 ** attempt)
                /\ executions' = Store(SetNode(ex, n, counted))
                /\ node_pc' = [node_pc EXCEPT ![n] = "backoff"]
                /\ backoff' = [backoff EXCEPT ![n] = BackoffDelay(attempt[n])]
                /\ UNCHANGED update_queue
           ELSE /\ NodeReturned(ex, n, counted, result)
                /\ node_pc' = [node_pc EXCEPT ![n] = "done"]
                /\ UNCHANGED backoff
    /\ last_outcome' = [last_outcome EXCEPT ![n] = outcome]
    /\ now' = now + 1
    /\ UNCHANGED << parser_vars, manager_vars, registry_vars, importer_vars, overlap_vars,
                    config_vars, on_node_complete, sched_vars, attempt,
                    invocations, prepared_from,
                    gen_pc, original_callback, stream, heartbeats,
                    workflow_complete_fired, cancel_vars >>

\* the backoff sleep has elapsed: the next attempt calls skill.execute
BackoffElapsed(n) ==
    /\ node_pc[n] = "backoff"
    /\ node_pc' = [node_pc EXCEPT ![n] = "exec"]
    /\ attempt' = [attempt EXCEPT ![n] = @ + 1]
    /\ invocations' = [invocations EXCEPT ![n] = @ + 1]
    /\ backoff' = [backoff EXCEPT ![n] = 0]
    /\ last_outcome' = [last_outcome EXCEPT ![n] = None]
    /\ UNCHANGED prepared_from
    /\ UNCHANGED << parser_vars, manager_vars, registry_vars, importer_vars, overlap_vars,
                    config_vars, executions, on_node_complete, sched_vars,
                    stream_vars, now, workflow_complete_fired, cancel_vars >>

\* --------------------------------------------------------- cancel_execution
\* mutant: the status test is left out
CancelAllowedAnyStatus(id) == id \in DOMAIN executions

\* if execution and execution.status == WorkflowStatus.RUNNING
CancelAllowed(id) ==
    id \in DOMAIN executions /\ executions[id].status = "running"

\* cancel_execution(id), called by another coroutine of the event loop
\* between two steps of the tasks
CancelExecution(id) ==
    /\ last_cancel' = [id |-> id, returned |-> CancelAllowed(id)]
    /\ IF CancelAllowed(id)
       THEN executions' = [executions EXCEPT ![id].status = "cancelled",
                                             ![id].completed_at = now]
       ELSE UNCHANGED executions
    /\ UNCHANGED << parser_vars, manager_vars, registry_vars, importer_vars, overlap_vars,
                    config_vars, on_node_complete, sched_vars, node_vars,
                    stream_vars, now, workflow_complete_fired >>

\* ----------------------------------------------------------- execute_stream
StartRecord ==
    [type |-> "execution_start", execution_id |-> ExecId, workflow_id |-> workflow.id]
HeartbeatRecord == [type |-> "heartbeat", execution_id |-> ExecId]
CompleteRecord(ex) ==
    [type |-> "execution_complete", execution_id |-> ExecId,
     status |-> ex.status, error |-> ex.error]

\* execution_task.done()
ExecutionTaskDone == pc = "done"

\* mutant: the final record is yielded inside the loop
AfterFinalRecordLoops == "loop"

\* after the yield of execution_complete only the finally clause is left
AfterFinalRecord == "complete"

\* execute_stream up to its first yield: the queue, the callback swap, the
\* execution task, and the execution_start record
ExecuteStream ==
    /\ pc = "idle"
    /\ gen_pc = "none"
    /\ update_queue' = <<>>
    /\ original_callback' = on_node_complete
    /\ on_node_complete' = "stream"
    /\ pc' = "scheduled"
    /\ stream' = Append(stream, StartRecord)
    /\ gen_pc' = "loop"
    /\ UNCHANGED << parser_vars, manager_vars, registry_vars, importer_vars, overlap_vars,
                    config_vars, executions, completed, running, tasks, awaiting,
                    node_vars, heartbeats, now, workflow_complete_fired, cancel_vars >>

\* the observer asks for the next record: the loop test, then either the final
\* record, a queued update, or the wait on update_queue.get()
StreamNext ==
    /\ gen_pc = "loop"
    /\ IF ExecutionTaskDone
       THEN /\ stream' = Append(stream, CompleteRecord(executions[ExecId]))
            /\ gen_pc' = AfterFinalRecord
            /\ UNCHANGED update_queue
       ELSE IF update_queue # <<>>
       THEN /\ stream' = Append(stream, Head(update_queue))
            /\ update_queue' = Tail(update_queue)
            /\ UNCHANGED gen_pc
       ELSE /\ gen_pc' = "get"
            /\ UNCHANGED << stream, update_queue >>
    /\ UNCHANGED << parser_vars, manager_vars, registry_vars, importer_vars, overlap_vars,
                    config_vars, executions, on_node_complete, sched_vars, node_vars,
                    original_callback, heartbeats, now, workflow_complete_fired,
                    cancel_vars >>

\* update_queue.get() returns within the 0.5 s: the update is yielded
StreamGet ==
    /\ gen_pc = "get"
    /\ update_queue # <<>>
    /\ stream' = Append(stream, Head(update_queue))
    /\ update_queue' = Tail(update_queue)
    /\ gen_pc' = "loop"
    /\ UNCHANGED << parser_vars, manager_vars, registry_vars, importer_vars, overlap_vars,
                    config_vars, executions, on_node_complete, sched_vars, node_vars,
                    original_callback, heartbeats, now, workflow_complete_fired,
                    cancel_vars >>

\* asyncio.TimeoutError after 0.5 s without an update: a heartbeat is yielded
StreamHeartbeat ==
    /\ gen_pc = "get"
    /\ update_queue = <<>>
    /\ ExecutionTaskDone \/ heartbeats < MaxHeartbeats
    /\ heartbeats' = IF ExecutionTaskDone THEN heartbeats ELSE heartbeats + 1
    /\ stream' = Append(stream, HeartbeatRecord)
    /\ gen_pc' = "loop"
    /\ UNCHANGED << parser_vars, manager_vars, registry_vars, importer_vars, overlap_vars,
                    config_vars, executions, on_node_complete, sched_vars, node_vars,
                    update_queue, original_callback, now, workflow_complete_fired,
                    cancel_vars >>

\* the observer asks once more after execution_complete: the finally clause
\* restores the callback and the generator ends
StreamClose ==
    /\ gen_pc = "complete"
    /\ on_node_complete' = original_callback
    /\ gen_pc' = "closed"
    /\ UNCHANGED << parser_vars, manager_vars, registry_vars, importer_vars, overlap_vars,
                    config_vars, executions, sched_vars, node_vars, update_queue,
                    original_callback, stream, heartbeats, now,
                    workflow_complete_fired, cancel_vars >>

\* --------------------------------------------- backend/workflow/n8n_parser.py
\* a Python dict that holds the keys `keys` of the dict `full`
Restrict(full, keys) == [k \in keys |-> full[k]]
\* d.get(k, default)
Get(d, k, default) == IF k \in DOMAIN d THEN d[k] ELSE default
\* not value, for a list
Falsy(value) == value = <<>>
\* a value Python takes as true: a non-empty string that is not None
Truthy(value) == value # "" /\ value # None

\* the checks of the required fields and of the triggers
RequiredFieldErrors(doc) ==
    (IF "id" \notin DOMAIN doc THEN << "Missing workflow ID" >> ELSE <<>>)
    \o (IF "name" \notin DOMAIN doc THEN << "Missing workflow name" >> ELSE <<>>)
    \o (IF "nodes" \notin DOMAIN doc \/ Falsy(doc.nodes)
        THEN << "Workflow has no nodes" >> ELSE <<>>)
    \o (IF "triggers" \notin DOMAIN doc \/ Falsy(doc.triggers)
        THEN << "Workflow has no trigger nodes" >> ELSE <<>>)

\* the loop over the nodes, node_ids being the ids seen so far
RECURSIVE NodeErrors(_, _)
NodeErrors(nodes, node_ids) ==
    IF nodes = <<>> THEN <<>>
    ELSE LET node == Head(nodes) IN
         (IF node.id \in node_ids
          THEN << "Duplicate node ID: " \o node.id >> ELSE <<>>)
         \o (IF "skill_id" \notin DOMAIN node /\ Get(node, "type", None) # "trigger"
             THEN << "Node " \o node.id \o " has no skill_id" >> ELSE <<>>)
         \o NodeErrors(Tail(nodes), node_ids \cup {node.id})

\* mutant: only the source of an edge is looked up
RECURSIVE EdgeErrorsSourceOnly(_, _)
EdgeErrorsSourceOnly(edges, node_ids) ==
    IF edges = <<>> THEN <<>>
    ELSE (IF Head(edges).source \notin node_ids
          THEN << "Edge references unknown source: " \o Head(edges).source >>
          ELSE <<>>)
         \o EdgeErrorsSourceOnly(Tail(edges), node_ids)

\* the loop over the edges, node_ids being the ids of all nodes
RECURSIVE EdgeErrors(_, _)
EdgeErrors(edges, node_ids) ==
    IF edges = <<>> THEN <<>>
    ELSE LET edge == Head(edges) IN
         (IF edge.source \notin node_ids
          THEN << "Edge references unknown source: " \o edge.source >> ELSE <<>>)
         \o (IF edge.target \notin node_ids
             THEN << "Edge references unknown target: " \o edge.target >> ELSE <<>>)
         \o EdgeErrors(Tail(edges), node_ids)

\* validate_manus_workflow(workflow): the list of errors
ValidateManusWorkflow(doc) ==
    LET nodes == Get(doc, "nodes", <<>>)
        node_ids == {nodes[i].id : i \in DOMAIN nodes}
    IN  RequiredFieldErrors(doc)
        \o NodeErrors(nodes, {})
        \o EdgeErrors(Get(doc, "edges", <<>>), node_ids)

\* the keys of {node.id: ... for node in self.nodes}, in insertion order
RECURSIVE DictKeys(_, _)
DictKeys(ids, seen) ==
    IF ids = <<>> THEN <<>>
    ELSE IF Head(ids) \in seen THEN DictKeys(Tail(ids), seen)
    ELSE << Head(ids) >> \o DictKeys(Tail(ids), seen \cup {Head(ids)})

\* in_degree after the loop over the edges
InDegree(ids, edges) ==
    [n \in Range(ids) |-> Cardinality({i \in DOMAIN edges : edges[i].target = n})]
\* adjacency after the loop over the edges: the targets in edge order
Adjacency(ids, edges) ==
    [n \in Range(ids) |->
        LET out == SelectSeq(edges, LAMBDA e : e.source = n)
        IN  [i \in DOMAIN out |-> out[i].target]]

\* mutant: every node is put on the initial queue
InitialQueueAll(ids, in_degree) == ids

\* queue = [node_id for node_id, degree in in_degree.items() if degree == 0]
InitialQueue(ids, in_degree) == SelectSeq(ids, LAMBDA n : in_degree[n] = 0)

\* for neighbor in adjacency[current]: the in-degree is decremented, and the
\* neighbor is queued when it reaches zero
RECURSIVE Relax(_, _, _)
Relax(neighbors, in_degree, queue) ==
    IF neighbors = <<>> THEN [in_degree |-> in_degree, queue |-> queue]
    ELSE LET neighbor == Head(neighbors)
             degrees == [in_degree EXCEPT ![neighbor] = @ - 1]
         IN  Relax(Tail(neighbors), degrees,
                   IF degrees[neighbor] = 0 THEN Append(queue, neighbor) ELSE queue)

\* while queue: current = queue.pop(0); order.append(current); ...
RECURSIVE Kahn(_, _, _, _)
Kahn(adjacency, in_degree, queue, sorted) ==
    IF queue = <<>> THEN sorted
    ELSE LET current == Head(queue)
             next == Relax(adjacency[current], in_degree, Tail(queue))
         IN  Kahn(adjacency, next.in_degree, next.queue, Append(sorted, current))

\* ManusWorkflow.get_execution_order on the workflow object that holds the
\* nodes and edges of doc: the order, or the KeyError that adjacency[source]
\* or in_degree[target] raises for an edge end that is no node
GetExecutionOrder(doc) ==
    LET nodes == Get(doc, "nodes", <<>>)
        edges == Get(doc, "edges", <<>>)
        ids == DictKeys([i \in DOMAIN nodes |-> nodes[i].id], {})
    IN  IF \E i \in DOMAIN edges :
                edges[i].source \notin Range(ids) \/ edges[i].target \notin Range(ids)
        THEN [raised |-> "KeyError", order |-> <<>>]
        ELSE [raised |-> None,
              order |-> Kahn(Adjacency(ids, edges), InDegree(ids, edges),
                             InitialQueue(ids, InDegree(ids, edges)), <<>>)]

\* the workflow documents the parser functions are applied to
\* a node dict with all the keys that are looked at
ParserNode(id, type, skill_id) == [id |-> id, type |-> type, skill_id |-> skill_id]
\* node lists by their ids: none, distinct ids in several orders, repeated ids
IdLists ==
    {<<>>, << "A" >>, << "A", "B" >>, << "B", "A" >>, << "A", "B", "C" >>,
     << "C", "B", "A" >>, << "A", "A" >>, << "A", "B", "A" >>}
\* the edges a document may list: forward, backward, a self loop, and edges
\* with an end that is no node
EdgePool ==
    {Edge("A", "B"), Edge("B", "C"), Edge("A", "C"), Edge("C", "A"),
     Edge("B", "A"), Edge("A", "A"), Edge("Z", "B"), Edge("A", "Y")}
EdgeLists == UNION {[1..k -> EdgePool] : k \in 0..MaxEdges}
\* documents with every field present, over all node lists and edge lists
GraphDocs ==
    {[id |-> "w", name |-> "n", triggers |-> << "A" >>,
      nodes |-> [i \in DOMAIN ids |-> ParserNode(ids[i], "action", "http_request")],
      edges |-> es] : ids \in IdLists, es \in EdgeLists}
\* the second node of a document, with or without type and skill_id
NodeVariants ==
    {Restrict(ParserNode("B", ty, sk), {"id"} \cup K) :
        ty \in {"trigger", "action"}, sk \in {"", None, "http_request"},
        K \in SUBSET {"type", "skill_id"}}
\* documents over A -> B with fields missing or empty
FieldDocs ==
    {Restrict([id |-> i, name |-> "n", triggers |-> t, nodes |-> ns,
               edges |-> << Edge("A", "B") >>], {"edges"} \cup K) :
        i \in {"", "w"}, t \in {<<>>, << "A" >>},
        ns \in {<<>>} \cup {<< Restrict(ParserNode("A", "trigger", None), {"id", "type"}), b >> :
                              b \in NodeVariants},
        K \in SUBSET {"id", "name", "triggers", "nodes"}}
Documents == GraphDocs \cup FieldDocs

\* errors = validate_manus_workflow(document)
CallValidate ==
    /\ "validate_manus_workflow" \notin called
    /\ errors' = ValidateManusWorkflow(document)
    /\ called' = called \cup {"validate_manus_workflow"}
    /\ UNCHANGED << document, execution_order, raised, runner_vars, manager_vars,
                    registry_vars, importer_vars, overlap_vars >>

\* order = workflow.get_execution_order()
CallGetExecutionOrder ==
    /\ "get_execution_order" \notin called
    /\ execution_order' = GetExecutionOrder(document).order
    /\ raised' = GetExecutionOrder(document).raised
    /\ called' = called \cup {"get_execution_order"}
    /\ UNCHANGED << document, errors, runner_vars, manager_vars,
                    registry_vars, importer_vars, overlap_vars >>

\* the parser functions applied to one of the documents; the runner is idle
ParserInit ==
    /\ \E doc \in Documents : ParserIdle(doc)
    /\ RunnerIdle(Config(WfEmpty, 1, 0, None))
    /\ ManagerIdle
    /\ RegistryIdle
    /\ ImporterIdle
    /\ OverlapIdle
ParserNext == CallValidate \/ CallGetExecutionOrder
ParserSpec == ParserInit /\ [][ParserNext]_vars

\* ------------------------------------------------------------ specification
Next ==
    \/ Execute
    \/ ExecuteStream
    \/ ExecuteTaskStart
    \/ SchedulerResume
    \/ \E n \in AllNodeIds : NodeStart(n)
    \/ \E n \in AllNodeIds : \E outcome \in AllOutcomes : SkillReturns(n, outcome)
    \/ \E n \in AllNodeIds : BackoffElapsed(n)
    \/ \E id \in {ExecId, UnknownId} : CancelExecution(id)
    \/ StreamNext
    \/ StreamGet
    \/ StreamHeartbeat
    \/ StreamClose

Spec == Init /\ [][Next]_vars

\* ----------------------------------------- cancellation of the execute task
\* The owner of the task (or coroutine) that runs execute cancels it while
\* it waits for a node task: CancelledError is raised at the await in
\* _execute_graph and cancels the awaited node task, which is no Exception
\* for the except clauses of _execute_node; execute's except
\* asyncio.CancelledError clause sets CANCELLED and completed_at, the
\* callback is called and execute returns.  The other node tasks of the
\* batch go on.
ExecuteCancelled ==
    /\ pc = "await"
    /\ executions' = Store([executions[ExecId] EXCEPT !.status = "cancelled",
                                                      !.completed_at = now])
    /\ workflow_complete_fired' =
            IF on_workflow_complete # None THEN workflow_complete_fired + 1
            ELSE workflow_complete_fired
    /\ node_pc' = [node_pc EXCEPT ![tasks[awaiting]] =
                        IF @ = "done" THEN "done" ELSE "cancelled"]
    /\ pc' = "done"
    /\ UNCHANGED << parser_vars, manager_vars, registry_vars, importer_vars, overlap_vars,
                    config_vars, on_node_complete, completed, running,
                    tasks, awaiting, attempt, invocations, backoff, last_outcome,
                    prepared_from, stream_vars, now, cancel_vars >>

\* the runs in which the execute task may be cancelled
CancelConfigurations ==
    {Config(WfChain, 1, 1, "user"), Config(WfDiamond, MaxParallel, 0, "user"),
     Config(WfCycle, 1, 0, "user"), Config(WfCycle, 1, 0, None)}
CancelInit ==
    /\ \E c \in CancelConfigurations : RunnerIdle(c)
    /\ ParserIdle(EmptyDict)
    /\ ManagerIdle
    /\ RegistryIdle
    /\ ImporterIdle
    /\ OverlapIdle
CancelNext == Next \/ ExecuteCancelled
CancelSpec == CancelInit /\ [][CancelNext]_vars

\* ------------------------------------------------- execute, run to its end
\* One direct call of execute, without streaming and without cancel_execution
\* calls, also for a runner constructed with max_parallel_nodes = 0.  The
\* event loop runs every task that can run: the scheduler when the task it
\* awaits is done, a created node task, the end of a backoff sleep; and every
\* attempt of a skill ends (it returns, raises, or wait_for times it out).
RunConfigurations ==
    {Config(WfChain, m, r, "user") : m \in 0..1, r \in 0..MaxRetryCount}
    \cup {Config(WfDiamond, m, 0, "user") : m \in 0..MaxParallel}
    \cup {Config(WfFan, m, 1, "user") : m \in 1..MaxParallel}
    \cup {Config(WfStagger, MaxParallel, 0, "user")}
    \cup {Config(w, 1, 0, "user") : w \in {WfCycle, WfDangling, WfEmpty}}
RunInit ==
    /\ \E c \in RunConfigurations : RunnerIdle(c)
    /\ ParserIdle(EmptyDict)
    /\ ManagerIdle
    /\ RegistryIdle
    /\ ImporterIdle
    /\ OverlapIdle
RunNext ==
    \/ Execute
    \/ SchedulerResume
    \/ \E n \in AllNodeIds : NodeStart(n)
    \/ \E n \in AllNodeIds : \E outcome \in AllOutcomes : SkillReturns(n, outcome)
    \/ \E n \in AllNodeIds : BackoffElapsed(n)
RunFairness ==
    /\ WF_vars(SchedulerResume)
    /\ \A n \in AllNodeIds : WF_vars(NodeStart(n))
    /\ \A n \in AllNodeIds : WF_vars(\E outcome \in AllOutcomes : SkillReturns(n, outcome))
    /\ \A n \in AllNodeIds : WF_vars(BackoffElapsed(n))
RunSpec == RunInit /\ [][RunNext]_vars /\ RunFairness

\* ----------------------------------------------------------- WorkflowManager
\* the dict d after d[k] = v
With(d, k, v) == [x \in DOMAIN d \cup {k} |-> IF x = k THEN v ELSE d[x]]

\* f"workflow_{uuid.uuid4().hex[:12]}": an id that no earlier uuid gave
FreshWorkflowId == "workflow_" \o ToString(uuid_count + 1)

\* mutant: the id of the document is not looked at
WorkflowIdAlwaysFresh(doc, fresh) == fresh

\* workflow_id = workflow.get("id") or <fresh id>
WorkflowId(doc, fresh) == IF Truthy(Get(doc, "id", None)) THEN doc.id ELSE fresh

\* the document after save_workflow has set id, updated_at and, if absent,
\* created_at
SavedDocument(doc, workflow_id) ==
    LET updated == With(With(doc, "id", workflow_id), "updated_at", now)
    IN  IF "created_at" \in DOMAIN doc THEN updated
        ELSE With(updated, "created_at", updated.updated_at)

\* the documents that are saved: with, without and with an empty id, with a
\* trigger node or a skill node
ManagerDocs ==
    {Restrict([id |-> i, nodes |-> << Node("A", sk, EmptyDict) >>, edges |-> {}],
              {"nodes", "edges"} \cup K) :
        i \in {"", "w1", "w2"}, sk \in {"", "http_request"}, K \in SUBSET {"id"}}
\* the ids that are asked for
ManagerIds == {"w1", "w2", "workflow_1"}

RecordCall(op, id, returned) ==
    manager_call' = [op |-> op, id |-> id, returned |-> returned,
                     calls |-> manager_call.calls + 1]

\* save_workflow(doc)
SaveWorkflow(doc) ==
    /\ manager_call.calls < MaxCalls
    /\ LET workflow_id == WorkflowId(doc, FreshWorkflowId)
       IN  /\ manager_workflows' =
                 With(manager_workflows, workflow_id, SavedDocument(doc, workflow_id))
           /\ RecordCall("save_workflow", None, workflow_id)
    /\ uuid_count' = IF Truthy(Get(doc, "id", None)) THEN uuid_count
                     ELSE uuid_count + 1
    /\ manager_doc' = << doc >>
    /\ UNCHANGED << runner_vars, parser_vars, registry_vars, importer_vars, overlap_vars >>

\* get_workflow(id)
GetWorkflow(id) ==
    /\ manager_call.calls < MaxCalls
    /\ IF id \in DOMAIN manager_workflows
       THEN /\ RecordCall("get_workflow", id, "document")
            /\ manager_doc' = << manager_workflows[id] >>
       ELSE /\ RecordCall("get_workflow", id, None)
            /\ manager_doc' = <<>>
    /\ UNCHANGED << manager_workflows, uuid_count, runner_vars, parser_vars,
                    registry_vars, importer_vars, overlap_vars >>

\* delete_workflow(id)
DeleteWorkflow(id) ==
    /\ manager_call.calls < MaxCalls
    /\ IF id \in DOMAIN manager_workflows
       THEN /\ manager_workflows' =
                  [k \in DOMAIN manager_workflows \ {id} |-> manager_workflows[k]]
            /\ RecordCall("delete_workflow", id, "True")
       ELSE /\ UNCHANGED manager_workflows
            /\ RecordCall("delete_workflow", id, "False")
    /\ manager_doc' = <<>>
    /\ UNCHANGED << uuid_count, runner_vars, parser_vars, registry_vars,
                    importer_vars, overlap_vars >>

\* run_workflow(id): ValueError for an id that is not stored; otherwise
\* runner.execute(workflow), up to its first suspension
RunWorkflow(id) ==
    /\ manager_call.calls < MaxCalls
    /\ pc = "idle"
    /\ gen_pc = "none"
    /\ manager_doc' = <<>>
    /\ IF id \notin DOMAIN manager_workflows
       THEN /\ RecordCall("run_workflow", id, "ValueError")
            /\ UNCHANGED runner_vars
       ELSE /\ RecordCall("run_workflow", id, "awaiting execute")
            /\ workflow' = manager_workflows[id]
            /\ ExecuteGraphLoopIn(manager_workflows[id],
                                  NewExecution(manager_workflows[id], ExecId), {}, {})
            /\ now' = now + 1
            /\ UNCHANGED << max_parallel_nodes, skill_registry, on_workflow_complete,
                            on_node_complete, attempt, invocations, backoff,
                            last_outcome, prepared_from, stream_vars, cancel_vars >>
    /\ UNCHANGED << manager_workflows, uuid_count, parser_vars, registry_vars,
                    importer_vars, overlap_vars >>

\* a manager with an idle runner on which it runs the stored workflows
ManagerInit ==
    /\ RunnerIdle(Config(WfEmpty, 1, 0, None))
    /\ ParserIdle(EmptyDict)
    /\ ManagerIdle
    /\ RegistryIdle
    /\ ImporterIdle
    /\ OverlapIdle
ManagerNext ==
    \/ \E doc \in ManagerDocs \cup Range(manager_doc) : SaveWorkflow(doc)
    \/ \E id \in ManagerIds : GetWorkflow(id)
    \/ \E id \in ManagerIds : DeleteWorkflow(id)
    \/ \E id \in ManagerIds : RunWorkflow(id)
    \/ SchedulerResume
    \/ \E n \in AllNodeIds : NodeStart(n)
    \/ \E n \in AllNodeIds : \E outcome \in AllOutcomes : SkillReturns(n, outcome)
ManagerSpec == ManagerInit /\ [][ManagerNext]_vars

\* ------------------------------------------------------------- SkillRegistry
\* the classes that are given to register after startup: a standard skill
\* again, a class that takes the id of a standard skill, and two classes that
\* share a new id
RegisteredClasses ==
    {SkillClass("HTTPRequestSkill", "http_request"),
     SkillClass("MockHTTPSkill", "http_request"),
     SkillClass("CustomSkill", "custom"),
     SkillClass("OtherCustomSkill", "custom")}
\* the ids that are asked for
RegistryIds == {"http_request", "custom", "no_such_skill"}

\* skill_class(): the instance that is constructed next
NewInstance(skill_class) == [class |-> skill_class.name, serial |-> instance_count + 1]
\* instance.definition
Definition(skill_class) == [id |-> skill_class.id, class |-> skill_class.name]

\* register(skill_class)
RegistryRegister(skill_class) ==
    /\ registry_call.calls < MaxRegistryCalls
    /\ instance_count' = instance_count + 1
    /\ registry_skills' = Register(registry_skills, skill_class)
    /\ registered' = Append(registered, skill_class)
    /\ registry_call' = [op |-> "register", id |-> skill_class.id,
                         calls |-> registry_call.calls + 1]
    /\ registry_returned' = <<>>
    /\ UNCHANGED << runner_vars, parser_vars, manager_vars, importer_vars, overlap_vars >>

\* get(skill_id)
RegistryGet(skill_id) ==
    /\ registry_call.calls < MaxRegistryCalls
    /\ LET skill_class == DictGetItem(registry_skills, skill_id)
       IN  /\ registry_returned' =
                 [i \in DOMAIN skill_class |-> NewInstance(skill_class[i])]
           /\ instance_count' = instance_count + Len(skill_class)
    /\ registry_call' = [op |-> "get", id |-> skill_id,
                         calls |-> registry_call.calls + 1]
    /\ UNCHANGED << registry_skills, registered, runner_vars, parser_vars,
                    manager_vars, importer_vars, overlap_vars >>

\* list_all(): the definition of a new instance for each key of the dict
RegistryListAll ==
    /\ registry_call.calls < MaxRegistryCalls
    /\ registry_returned' =
           [i \in DOMAIN registry_skills |-> Definition(registry_skills[i].value)]
    /\ instance_count' = instance_count + Len(registry_skills)
    /\ registry_call' = [op |-> "list_all", id |-> None,
                         calls |-> registry_call.calls + 1]
    /\ UNCHANGED << registry_skills, registered, runner_vars, parser_vars,
                    manager_vars, importer_vars, overlap_vars >>

\* the registry after startup, under register, get and list_all
RegistryInit ==
    /\ RunnerIdle(Config(WfEmpty, 1, 0, None))
    /\ ParserIdle(EmptyDict)
    /\ ManagerIdle
    /\ RegistryIdle
    /\ ImporterIdle
    /\ OverlapIdle
RegistryNext ==
    \/ \E skill_class \in RegisteredClasses : RegistryRegister(skill_class)
    \/ \E skill_id \in RegistryIds : RegistryGet(skill_id)
    \/ RegistryListAll
RegistrySpec == RegistryInit /\ [][RegistryNext]_vars

\* --------------------------------------------------- N8NParser (the importer)
\* N8N_TO_MANUS_MAPPING, as the items of the dict display in their order
N8N_TO_MANUS_ITEMS ==
    << << "n8n-nodes-base.webhook", "trigger_webhook" >>,
       << "n8n-nodes-base.manualTrigger", "trigger_manual" >>,
       << "n8n-nodes-base.scheduleTrigger", "trigger_schedule" >>,
       << "n8n-nodes-base.cron", "trigger_schedule" >>,
       << "n8n-nodes-base.httpRequest", "http_request" >>,
       << "n8n-nodes-base.httpRequestAction", "http_request" >>,
       << "n8n-nodes-base.code", "python_sandbox" >>,
       << "n8n-nodes-base.executeCommand", "bash_commander" >>,
       << "n8n-nodes-base.readBinaryFile", "file_manager" >>,
       << "n8n-nodes-base.writeBinaryFile", "file_manager" >>,
       << "n8n-nodes-base.readTextFile", "file_manager" >>,
       << "n8n-nodes-base.writeTextFile", "file_manager" >>,
       << "n8n-nodes-base.postgres", "database_operator" >>,
       << "n8n-nodes-base.mysql", "database_operator" >>,
       << "n8n-nodes-base.sqlite", "database_operator" >>,
       << "n8n-nodes-base.mongodb", "database_operator" >>,
       << "n8n-nodes-base.openAi", "dynamic_planner" >>,
       << "n8n-nodes-base.anthropic", "dynamic_planner" >>,
       << "n8n-nodes-base.langChain", "dynamic_planner" >>,
       << "n8n-nodes-base.htmlExtract", "data_extractor" >>,
       << "n8n-nodes-base.webhook", "n8n_webhook" >>,
       << "n8n-nodes-base.set", "data_extractor" >>,
       << "n8n-nodes-base.function", "python_sandbox" >>,
       << "n8n-nodes-base.switch", "dynamic_planner" >>,
       << "n8n-nodes-base.if", "dynamic_planner" >>,
       << "n8n-nodes-base.merge", "data_extractor" >>,
       << "n8n-nodes-base.split", "data_extractor" >>,
       << "n8n-nodes-base.slack", "http_request" >>,
       << "n8n-nodes-base.discord", "http_request" >>,
       << "n8n-nodes-base.telegram", "http_request" >>,
       << "n8n-nodes-base.emailSend", "http_request" >>,
       << "default", "http_request" >> >>
\* PARAMETER_MAPPINGS, likewise
PARAMETER_ITEMS ==
    << << "url", "url" >>, << "method", "method" >>, << "headers", "headers" >>,
       << "body", "body" >>, << "authentication", "auth" >>,
       << "jsCode", "code" >>, << "pythonCode", "code" >>, << "code", "code" >>,
       << "fileName", "path" >>, << "filePath", "path" >>,
       << "fileContent", "content" >>, << "binaryData", "content" >>,
       << "query", "query" >>, << "sql", "query" >>, << "parameters", "params" >>,
       << "httpMethod", "method" >>, << "path", "webhook_url" >>,
       << "responseData", "payload" >> >>
\* the dict a display with these items gives: a key that is repeated keeps its
\* place and takes the later value
RECURSIVE DictOf(_, _)
DictOf(items, d) ==
    IF items = <<>> THEN d
    ELSE DictOf(Tail(items), DictSetItem(d, Head(items)[1], Head(items)[2]))
N8N_TO_MANUS_MAPPING == DictOf(N8N_TO_MANUS_ITEMS, <<>>)
PARAMETER_MAPPINGS == DictOf(PARAMETER_ITEMS, <<>>)
\* d.get(k, default) on a dict held as the list of its items
DictGetOr(d, k, default) ==
    IF DictGetItem(d, k) = <<>> THEN default ELSE DictGetItem(d, k)[1]

\* str.lower() on the letters that n8n type names are written in
LowerCase ==
    [A |-> "a", B |-> "b", C |-> "c", D |-> "d", E |-> "e", F |-> "f", G |-> "g",
     H |-> "h", I |-> "i", J |-> "j", K |-> "k", L |-> "l", M |-> "m", N |-> "n",
     O |-> "o", P |-> "p", Q |-> "q", R |-> "r", S |-> "s", T |-> "t", U |-> "u",
     V |-> "v", W |-> "w", X |-> "x", Y |-> "y", Z |-> "z"]
RECURSIVE Lower(_)
Lower(str) ==
    IF str = "" THEN ""
    ELSE LET c == SubSeq(str, 1, 1)
         IN  (IF c \in DOMAIN LowerCase THEN LowerCase[c] ELSE c)
                 \o Lower(SubSeq(str, 2, Len(str)))
\* sub in str
Contains(str, sub) ==
    \E i \in 1..(Len(str) - Len(sub) + 1) : SubSeq(str, i, i + Len(sub) - 1) = sub
\* any(word in str for word in words)
ContainsAny(str, words) == \E word \in words : Contains(str, word)

\* mutant: the condition words are looked for before the trigger words
MapNodeTypeConditionFirst(n8n_type) ==
    IF ContainsAny(Lower(n8n_type), {"if", "switch", "condition"})
    THEN [type |-> "condition", skill_id |-> "dynamic_planner"]
    ELSE IF ContainsAny(Lower(n8n_type), {"trigger", "webhook", "cron", "schedule"})
    THEN [type |-> "trigger",
          skill_id |-> IF Contains(Lower(n8n_type), "webhook")
                       THEN "trigger_webhook" ELSE "trigger_manual"]
    ELSE IF Contains(Lower(n8n_type), "merge")
    THEN [type |-> "merge", skill_id |-> "data_extractor"]
    ELSE [type |-> "skill",
          skill_id |-> DictGetOr(N8N_TO_MANUS_MAPPING, n8n_type,
                                 DictGetOr(N8N_TO_MANUS_MAPPING, "default",
                                           "http_request"))]

\* _map_node_type(n8n_type): the node type and the skill id
MapNodeType(n8n_type) ==
    IF ContainsAny(Lower(n8n_type), {"trigger", "webhook", "cron", "schedule"})
    THEN [type |-> "trigger",
          skill_id |-> IF Contains(Lower(n8n_type), "webhook")
                       THEN "trigger_webhook" ELSE "trigger_manual"]
    ELSE IF ContainsAny(Lower(n8n_type), {"if", "switch", "condition"})
    THEN [type |-> "condition", skill_id |-> "dynamic_planner"]
    ELSE IF Contains(Lower(n8n_type), "merge")
    THEN [type |-> "merge", skill_id |-> "data_extractor"]
    ELSE [type |-> "skill",
          skill_id |-> DictGetOr(N8N_TO_MANUS_MAPPING, n8n_type,
                                 DictGetOr(N8N_TO_MANUS_MAPPING, "default",
                                           "http_request"))]

\* a or b or c, for strings and None
FirstTruthy(a, b, c) == IF Truthy(a) THEN a ELSE IF Truthy(b) THEN b ELSE c

\* _map_parameters(n8n_params, n8n_type), for parameters of which no two are
\* mapped to the same key
MapParameters(n8n_params, n8n_type) ==
    LET ManusKey(k) == DictGetOr(PARAMETER_MAPPINGS, k, k)
        direct == [mk \in {ManusKey(k) : k \in DOMAIN n8n_params} |->
                      n8n_params[CHOOSE k \in DOMAIN n8n_params : ManusKey(k) = mk]]
        is_http == Contains(n8n_type, "httpRequest") \/ Contains(Lower(n8n_type), "http")
        with_method == IF is_http /\ "method" \notin DOMAIN direct
                       THEN With(direct, "method", "GET") ELSE direct
        http == IF is_http /\ "url" \notin DOMAIN with_method /\ "path" \in DOMAIN n8n_params
                THEN With(with_method, "url", n8n_params.path) ELSE with_method
    IN  IF Contains(Lower(n8n_type), "code") \/ Contains(Lower(n8n_type), "function")
        THEN With(http, "code",
                  FirstTruthy(Get(n8n_params, "jsCode", None),
                              Get(n8n_params, "pythonCode", None),
                              Get(n8n_params, "code", "")))
        ELSE http

\* _extract_conditions(n8n_node)
ExtractConditions(n8n_node) ==
    LET params == Get(n8n_node, "parameters", EmptyDict)
        conds == Get(params, "conditions", <<>>)
        rules == Get(params, "rules", <<>>)
    IN  [i \in DOMAIN conds |->
            [type |-> Get(conds[i], "condition", "equals"),
             left |-> Get(conds[i], "leftValue", ""),
             right |-> Get(conds[i], "rightValue", ""),
             output |-> Get(conds[i], "output", 0)]]
        \o [i \in DOMAIN rules |->
               [type |-> Get(rules[i], "condition", "equals"),
                left |-> Get(rules[i], "leftValue", ""),
                right |-> Get(rules[i], "rightValue", ""),
                output |-> i - 1]]

\* _parse_node(n8n_node), generated being what _generate_id() returns; the
\* position is a list
ParseNode(n8n_node, generated) ==
    LET n8n_type == Get(n8n_node, "type", "")
        mapped == MapNodeType(n8n_type)
    IN  [id |-> "node_" \o Get(n8n_node, "id", generated),
         name |-> Get(n8n_node, "name", "Unnamed Node"),
         type |-> mapped.type,
         skill_id |-> mapped.skill_id,
         parameters |-> MapParameters(Get(n8n_node, "parameters", EmptyDict), n8n_type),
         position |-> Get(n8n_node, "position", << 0, 0 >>),
         connections |-> <<>>,
         conditions |-> IF mapped.type = "condition"
                        THEN ExtractConditions(n8n_node) ELSE <<>>,
         original_n8n_type |-> n8n_type]

\* node_id_map after the loop over the nodes: a name that is repeated maps to
\* the id of the last node that has it, a node without name is under its id
NodeIdMap(n8n_nodes, nodes) ==
    LET KeyOf(i) == Get(n8n_nodes[i], "name", nodes[i].id)
    IN  [name \in {KeyOf(i) : i \in DOMAIN nodes} |->
            nodes[CHOOSE i \in DOMAIN nodes :
                      /\ KeyOf(i) = name
                      /\ \A j \in DOMAIN nodes : KeyOf(j) = name => j <= i].id]

\* mutant: names are not resolved
ResolveNameKeepsName(node_id_map, name) == name

\* node_id_map.get(name, name)
ResolveName(node_id_map, name) == Get(node_id_map, name, name)

\* the edges of one list of the main outputs of a source
TargetEdges(source_id, outputs, output_idx, node_id_map) ==
    [t \in DOMAIN outputs |->
        LET target_id == ResolveName(node_id_map, Get(outputs[t], "node", ""))
        IN  [id |-> "edge_" \o source_id \o "_" \o target_id,
             source |-> source_id,
             target |-> target_id,
             output_index |-> output_idx]]

\* the edges of the main outputs from position k on (the first is position 1
\* and has output_idx 0)
RECURSIVE MainEdges(_, _, _, _)
MainEdges(source_id, main, k, node_id_map) ==
    IF k > Len(main) THEN <<>>
    ELSE TargetEdges(source_id, main[k], k - 1, node_id_map)
             \o MainEdges(source_id, main, k + 1, node_id_map)

\* _parse_connections(connections, node_id_map), connections being the list
\* of the items of the dict
RECURSIVE ParseConnections(_, _)
ParseConnections(connections, node_id_map) ==
    IF connections = <<>> THEN <<>>
    ELSE LET source_id == ResolveName(node_id_map, Head(connections).key)
             connection_data == Head(connections).value
         IN  (IF "main" \in DOMAIN connection_data
              THEN MainEdges(source_id, connection_data.main, 1, node_id_map)
              ELSE <<>>)
             \o ParseConnections(Tail(connections), node_id_map)

\* parse(n8n_data) and to_dict() of its result; generated holds what
\* _generate_id() returns for the workflow and for each node
Parse(data, generated) ==
    LET n8n_nodes == Get(data, "nodes", <<>>)
        parsed == [i \in DOMAIN n8n_nodes |-> ParseNode(n8n_nodes[i], generated.nodes[i])]
        edges == ParseConnections(Get(data, "connections", <<>>),
                                  NodeIdMap(n8n_nodes, parsed))
        TargetsOf(id) == LET out == SelectSeq(edges, LAMBDA e : e.source = id)
                         IN  [i \in DOMAIN out |-> out[i].target]
        triggers == SelectSeq(parsed, LAMBDA node : node.type = "trigger")
    IN  [id |-> "manus_" \o Get(data, "id", generated.workflow),
         name |-> Get(data, "name", "Imported Workflow"),
         description |-> Get(Get(data, "meta", EmptyDict), "description", ""),
         nodes |-> [i \in DOMAIN parsed |->
                       [parsed[i] EXCEPT !.connections = TargetsOf(parsed[i].id)]],
         edges |-> edges,
         triggers |-> [i \in DOMAIN triggers |-> triggers[i].id],
         settings |-> Get(data, "settings", EmptyDict)]

\* str(uuid.uuid4())[:8]: two of the strings it may return
GeneratedIds == {"1a2b3c4d", "9f8e7d6c"}
\* what _generate_id() may return during parse(data): for the workflow and
\* for each node; a value that parse does not use is fixed
Generated(data) ==
    LET n8n_nodes == Get(data, "nodes", <<>>)
        first == "1a2b3c4d"
    IN  {[workflow |-> w, nodes |-> ns] :
            w \in IF "id" \in DOMAIN data THEN {first} ELSE GeneratedIds,
            ns \in {f \in [DOMAIN n8n_nodes -> GeneratedIds] :
                       \A i \in DOMAIN n8n_nodes :
                           "id" \in DOMAIN n8n_nodes[i] => f[i] = first}}

\* the n8n documents the importer is handed
\* an n8n node with all its keys
N8nNode(id, name, type, parameters) ==
    [id |-> id, name |-> name, type |-> type, parameters |-> parameters,
     position |-> << 100, 100 >>]
\* the node types: those of the table, types that hold a word in capitals or
\* inside another word, a type that holds words of two classes, unknown types
N8nTypes ==
    {"n8n-nodes-base.webhook", "n8n-nodes-base.manualTrigger",
     "n8n-nodes-base.scheduleTrigger", "n8n-nodes-base.cron",
     "n8n-nodes-base.respondToWebhook", "n8n-nodes-base.shopifyTrigger",
     "n8n-nodes-base.if", "n8n-nodes-base.switch", "n8n-nodes-base.Switch",
     "n8n-nodes-base.merge", "n8n-nodes-base.httpRequest", "n8n-nodes-base.code",
     "n8n-nodes-base.executeCommand", "n8n-nodes-base.set",
     "n8n-nodes-base.notion", "n8n-nodes-base.pushNotification", ""}
\* the example document of the parser module: Webhook -> HTTP Request -> Code
ExampleNodes ==
    << N8nNode("1", "Webhook", "n8n-nodes-base.webhook",
               [httpMethod |-> "POST", path |-> "webhook"]),
       N8nNode("2", "HTTP Request", "n8n-nodes-base.httpRequest",
               [url |-> "https://api.example.com/data", method |-> "GET"]),
       N8nNode("3", "Code", "n8n-nodes-base.code",
               [jsCode |-> "return items[0].json;"]) >>
\* the items of a connections dict: source name -> {"main": lists of targets}
Connection(source, main) == [key |-> source, value |-> [main |-> main]]
Target(name) == [node |-> name]
ExampleConnections ==
    << Connection("Webhook", << << Target("HTTP Request") >> >>),
       Connection("HTTP Request", << << Target("Code") >> >>) >>
\* the example, with and without the id of the workflow and the ids of nodes
ExampleDocs ==
    {Restrict([id |-> "42", name |-> "Example Workflow",
               nodes |-> [i \in DOMAIN ExampleNodes |->
                             IF i \in without
                             THEN Restrict(ExampleNodes[i],
                                           DOMAIN ExampleNodes[i] \ {"id"})
                             ELSE ExampleNodes[i]],
               connections |-> ExampleConnections],
              {"name", "nodes", "connections"} \cup K) :
        K \in SUBSET {"id"}, without \in {{}, {2}, {2, 3}}}
\* one node of each type, with the parameters of a switch node
TypeDocs ==
    {[name |-> "One Node",
      nodes |-> << N8nNode("1", "Node", type,
                           [rules |-> << [condition |-> "contains"], EmptyDict >>]) >>] :
        type \in N8nTypes}
\* node lists for the connection documents: three named nodes, two nodes that
\* share a name, a node without name
ConnectionNodeLists ==
    {<< N8nNode("a", "A", "n8n-nodes-base.manualTrigger", EmptyDict),
        N8nNode("b", "B", "n8n-nodes-base.httpRequest", EmptyDict),
        N8nNode("c", "C", "n8n-nodes-base.code", EmptyDict) >>,
     << N8nNode("a", "A", "n8n-nodes-base.manualTrigger", EmptyDict),
        N8nNode("b", "B", "n8n-nodes-base.httpRequest", EmptyDict),
        N8nNode("c", "B", "n8n-nodes-base.code", EmptyDict) >>,
     << N8nNode("a", "A", "n8n-nodes-base.httpRequest", EmptyDict),
        Restrict(N8nNode("b", "B", "n8n-nodes-base.code", EmptyDict),
                 {"id", "type", "parameters"}),
        N8nNode("c", "C", "n8n-nodes-base.code", EmptyDict) >>}
\* what a source may be connected to: one or two outputs, several targets of
\* one output, an empty output, a target that is no node, no main outputs
ConnectionData ==
    {[main |-> m] :
        m \in {<< << Target("B") >> >>,
               << << Target("B") >>, << Target("C") >> >>,
               << << Target("B"), Target("C") >> >>,
               << <<>>, << Target("C"), Target("C") >> >>,
               << << Target("A") >> >>,
               << << Target("Ghost") >> >>}}
    \cup {[other |-> <<>>]}
ConnectionLists ==
    {<<>>}
    \cup {<< [key |-> s, value |-> d] >> : s \in {"A", "B", "Ghost"}, d \in ConnectionData}
    \cup {<< [key |-> "A", value |-> d1], [key |-> "B", value |-> d2] >> :
             d1 \in ConnectionData, d2 \in ConnectionData}
ConnectionDocs ==
    {[id |-> "7", name |-> "Connections", nodes |-> ns, connections |-> cs] :
        ns \in ConnectionNodeLists, cs \in ConnectionLists}
N8nDocs == ExampleDocs \cup TypeDocs \cup ConnectionDocs \cup {EmptyDict}

\* convert_n8n_to_manus(n8n_data)
ConvertN8nToManus ==
    /\ Len(converted) < MaxConversions
    /\ \E generated \in Generated(n8n_data) :
           converted' = Append(converted, Parse(n8n_data, generated))
    /\ UNCHANGED << n8n_data, import_response, overlap_vars, runner_vars, parser_vars,
                    manager_vars, registry_vars >>

\* import_n8n_workflow, after the file has been read as JSON: parse, to_dict,
\* workflow_manager.save_workflow, and the answer
ImportN8nWorkflow ==
    /\ import_response = <<>>
    /\ \E generated \in Generated(n8n_data) :
           LET workflow_dict == Parse(n8n_data, generated)
               workflow_id == WorkflowId(workflow_dict, FreshWorkflowId)
           IN  /\ manager_workflows' =
                     With(manager_workflows, workflow_id,
                          SavedDocument(workflow_dict, workflow_id))
               /\ uuid_count' = IF Truthy(Get(workflow_dict, "id", None))
                                THEN uuid_count ELSE uuid_count + 1
               /\ RecordCall("save_workflow", None, workflow_id)
               /\ manager_doc' = << workflow_dict >>
               /\ import_response' =
                     << [id |-> workflow_id,
                         name |-> workflow_dict.name,
                         message |-> "n8n workflow imported successfully",
                         nodes_converted |-> Len(workflow_dict.nodes),
                         edges_converted |-> Len(workflow_dict.edges)] >>
    /\ UNCHANGED << n8n_data, converted, overlap_vars, runner_vars, parser_vars,
                    registry_vars >>

\* the importer on one of the documents, with an empty manager
ImporterInit ==
    /\ RunnerIdle(Config(WfEmpty, 1, 0, None))
    /\ ParserIdle(EmptyDict)
    /\ ManagerIdle
    /\ RegistryIdle
    /\ OverlapIdle
    /\ n8n_data \in N8nDocs
    /\ converted = <<>>
    /\ import_response = <<>>
ImporterNext == ConvertN8nToManus \/ ImportN8nWorkflow
ImporterSpec == ImporterInit /\ [][ImporterNext]_vars

\* ------------------------------------- calls that overlap on one runner
\* execute_stream and execute, each as the steps one call takes between its
\* suspension points, for two calls on one WorkflowRunner.  The runner has one
\* _on_node_complete attribute; execution_id, update_queue, original_callback
\* and on_node_update are locals of each execute_stream call.

\* execute_stream up to its first yield: the locals, the callback swap, the
\* task for execute, and the execution_start record
CallExecuteStream(c) ==
    /\ calls[c].kind = "none"
    /\ calls' = [calls EXCEPT
          ![c] = [@ EXCEPT
              !.kind = "execute_stream",
              !.original_callback = shared_callback,
              !.task = "scheduled",
              !.stream = << [type |-> "execution_start",
                             execution_id |-> CallExecId[c]] >>,
              !.gen_pc = "loop"]]
    /\ shared_callback' = OnNodeUpdate[c]
    /\ UNCHANGED << registered_callback, runner_vars, parser_vars, manager_vars,
                    registry_vars, importer_vars >>

\* execute awaited directly: it runs in the caller's task at once
CallExecute(c) ==
    /\ calls[c].kind = "none"
    /\ calls' = [calls EXCEPT ![c] = [@ EXCEPT !.kind = "execute",
                                                !.task = "running"]]
    /\ UNCHANGED << shared_callback, registered_callback, runner_vars, parser_vars,
                    manager_vars, registry_vars, importer_vars >>

\* the event loop starts the task execute_stream created
CallTaskStart(c) ==
    /\ calls[c].task = "scheduled"
    /\ calls' = [calls EXCEPT ![c] = [@ EXCEPT !.task = "running"]]
    /\ UNCHANGED << shared_callback, registered_callback, runner_vars, parser_vars,
                    manager_vars, registry_vars, importer_vars >>

\* on_node_update of call d, called for a node: the record it puts on the
\* queue of call d, with the execution_id of call d
OnNodeUpdateRecord(d, node_id) ==
    [type |-> "node_update", execution_id |-> CallExecId[d], node_id |-> node_id,
     status |-> "success"]

\* if self._on_node_complete: await self._on_node_complete(node_exec), at the
\* end of _execute_node for node_id: the callback the runner holds now is
\* called, whichever call the node belongs to
CallbackInvoked(all, node_id) ==
    [d \in Calls |->
        IF shared_callback = OnNodeUpdate[d]
        THEN [all[d] EXCEPT
                !.update_queue = Append(@, OnNodeUpdateRecord(d, node_id))]
        ELSE all[d]]

\* the execution of call c finishes its next node
CallNodeComplete(c) ==
    /\ calls[c].task = "running"
    /\ calls[c].completed < Len(CallNodes[c])
    /\ LET node_id == CallNodes[c][calls[c].completed + 1]
           counted == [calls EXCEPT ![c] = [@ EXCEPT !.completed = @ + 1]]
       IN  calls' = CallbackInvoked(counted, node_id)
    /\ UNCHANGED << shared_callback, registered_callback, runner_vars, parser_vars,
                    manager_vars, registry_vars, importer_vars >>

\* every node of call c is completed: execute returns
CallExecuteReturns(c) ==
    /\ calls[c].task = "running"
    /\ calls[c].completed = Len(CallNodes[c])
    /\ calls' = [calls EXCEPT ![c] = [@ EXCEPT !.task = "done"]]
    /\ UNCHANGED << shared_callback, registered_callback, runner_vars, parser_vars,
                    manager_vars, registry_vars, importer_vars >>

\* the observer of call c asks for the next record: the loop test, then the
\* final record, a queued update, or the wait on update_queue.get()
CallStreamNext(c) ==
    /\ calls[c].gen_pc = "loop"
    /\ calls' = [calls EXCEPT
          ![c] = IF @.task = "done"
                 THEN [@ EXCEPT
                         !.stream = Append(@, [type |-> "execution_complete",
                                               execution_id |-> CallExecId[c]]),
                         !.gen_pc = "complete"]
                 ELSE IF @.update_queue # <<>>
                 THEN [@ EXCEPT !.stream = Append(@, Head(calls[c].update_queue)),
                                !.update_queue = Tail(@)]
                 ELSE [@ EXCEPT !.gen_pc = "get"]]
    /\ UNCHANGED << shared_callback, registered_callback, runner_vars, parser_vars,
                    manager_vars, registry_vars, importer_vars >>

\* update_queue.get() of call c returns within the 0.5 s
CallStreamGet(c) ==
    /\ calls[c].gen_pc = "get"
    /\ calls[c].update_queue # <<>>
    /\ calls' = [calls EXCEPT
          ![c] = [@ EXCEPT !.stream = Append(@, Head(calls[c].update_queue)),
                           !.update_queue = Tail(@),
                           !.gen_pc = "loop"]]
    /\ UNCHANGED << shared_callback, registered_callback, runner_vars, parser_vars,
                    manager_vars, registry_vars, importer_vars >>

\* asyncio.TimeoutError in call c: a heartbeat is yielded
CallStreamHeartbeat(c) ==
    /\ calls[c].gen_pc = "get"
    /\ calls[c].update_queue = <<>>
    /\ calls[c].task = "done" \/ calls[c].heartbeats < MaxHeartbeats
    /\ calls' = [calls EXCEPT
          ![c] = [@ EXCEPT
              !.heartbeats = IF calls[c].task = "done" THEN @ ELSE @ + 1,
              !.stream = Append(@, [type |-> "heartbeat",
                                    execution_id |-> CallExecId[c]]),
              !.gen_pc = "loop"]]
    /\ UNCHANGED << shared_callback, registered_callback, runner_vars, parser_vars,
                    manager_vars, registry_vars, importer_vars >>

\* the finally clause of call c: self._on_node_complete = original_callback
CallStreamClose(c) ==
    /\ calls[c].gen_pc = "complete"
    /\ shared_callback' = calls[c].original_callback
    /\ calls' = [calls EXCEPT ![c] = [@ EXCEPT !.gen_pc = "closed"]]
    /\ UNCHANGED << registered_callback, runner_vars, parser_vars, manager_vars,
                    registry_vars, importer_vars >>

\* two calls on a runner whose callback is the user's, or None
OverlapInit ==
    /\ RunnerIdle(Config(WfEmpty, 1, 0, None))
    /\ ParserIdle(EmptyDict)
    /\ ManagerIdle
    /\ RegistryIdle
    /\ ImporterIdle
    /\ \E callback \in {None, "user"} : OverlapIdleWith(callback)
OverlapNext ==
    \/ \E c \in Calls : CallExecuteStream(c)
    \/ \E c \in Calls : CallExecute(c)
    \/ \E c \in Calls : CallTaskStart(c)
    \/ \E c \in Calls : CallNodeComplete(c)
    \/ \E c \in Calls : CallExecuteReturns(c)
    \/ \E c \in Calls : CallStreamNext(c)
    \/ \E c \in Calls : CallStreamGet(c)
    \/ \E c \in Calls : CallStreamHeartbeat(c)
    \/ \E c \in Calls : CallStreamClose(c)
OverlapSpec == OverlapInit /\ [][OverlapNext]_vars

\* ================================================================ properties
Started == ExecId \in DOMAIN executions
Execution == executions[ExecId]
NodesOf == DOMAIN Execution.node_executions
NodeExec(n) == Execution.node_executions[n]
TerminalNode(n) == NodeExec(n).status \in {"success", "failed"}
CountType(t) == Cardinality({i \in DOMAIN stream : stream[i].type = t})

\* a path of at most k edges leads from a to b
RECURSIVE PathWithin(_, _, _, _)
PathWithin(w, a, b, k) ==
    /\ k > 0
    /\ \E e \in w.edges :
        /\ e.source = a
        /\ (e.target = b \/ PathWithin(w, e.target, b, k - 1))
\* the graph is acyclic and every edge into a node comes from a node
WellFormed(w) ==
    LET ids == Range(NodeIdSeq(w))
    IN  /\ \A n \in ids : ~PathWithin(w, n, n, Cardinality(ids))
        /\ \A e \in w.edges : e.target \in ids => e.source \in ids

\* C1: for every edge (u -> v), v is started (running, started_at set, skill
\* invoked) only after u has reached a terminal status with completed_at set,
\* and completed_at of u is not later than started_at of v; so in the diamond
\* D starts only after both B and C have completed.
C1_TopologicalOrder ==
    Started =>
        \A e \in workflow.edges :
            (e.source \in NodesOf /\ e.target \in NodesOf) =>
                ((\/ NodeExec(e.target).status # "pending"
                  \/ NodeExec(e.target).started_at # NoTime
                  \/ invocations[e.target] > 0)
                 => /\ TerminalNode(e.source)
                    /\ NodeExec(e.source).completed_at # NoTime
                    /\ NodeExec(e.source).completed_at <= NodeExec(e.target).started_at)
C1_Witness ==
    /\ Started
    /\ workflow = WfDiamond
    /\ max_parallel_nodes = 2
    /\ NodeExec("D").status = "running"
    /\ invocations["D"] = 1
    /\ NodeExec("B").status = "failed"
    /\ NodeExec("C").status = "success"
    /\ NodeExec("B").completed_at > NodeExec("C").completed_at

\* C2: in every reachable state the number of nodes whose status is running
\* is at most max_parallel_nodes.
C2_BoundedParallelism ==
    Started =>
        Cardinality({n \in NodesOf : NodeExec(n).status = "running"})
            <= max_parallel_nodes
C2_Witness ==
    /\ Started
    /\ max_parallel_nodes = 2
    /\ Cardinality({n \in NodesOf : NodeExec(n).status = "running"}) = 2
    /\ Cardinality({n \in NodesOf : NodeExec(n).status = "pending"}) >= 1

\* C3: skill.execute is invoked at most 1 + retry_count times for every node,
\* retry_count being that of the resolved skill's definition, whether the
\* attempts fail by result status or by timeout; a node without a resolvable
\* skill invokes nothing.
C3_AtMostRetryCountPlusOne ==
    \A i \in DOMAIN workflow.nodes :
        LET node == workflow.nodes[i]
        IN  IF SkillFound(skill_registry, node.skill_id)
            THEN invocations[node.id] <= 1 + skill_registry[node.skill_id].retry_count
            ELSE invocations[node.id] = 0
C3_Witness ==
    /\ Started
    /\ workflow = WfChain
    /\ skill_registry["flaky"].retry_count = 2
    /\ invocations["B"] = 3
    /\ NodeExec("B").status = "failed"
    /\ NodeExec("B").retry_count = 3
    /\ NodeExec("B").error = "Execution timed out after 1s"

\* C4: whenever execute has returned an execution with status completed, every
\* NodeExecution has a status in {success, failed, skipped} and a completed_at.
C4_TerminalCoverage ==
    (Started /\ Execution.status = "completed") =>
        \A n \in NodesOf :
            /\ NodeExec(n).status \in {"success", "failed", "skipped"}
            /\ NodeExec(n).completed_at # NoTime
C4_Witness ==
    /\ Started
    /\ pc = "done"
    /\ Execution.status = "completed"
    /\ \E n \in NodesOf : NodeExec(n).status = "failed"
    /\ \E n \in NodesOf : NodeExec(n).status = "success"
    /\ \E n \in NodesOf : NodesById(workflow)[n].skill_id = ""

\* C5: the first record of a stream is execution_start; execution_complete is
\* emitted at most once and nothing follows it; a stream consumed to its end
\* holds exactly one execution_start and exactly one execution_complete, the
\* latter as its last record.
C5_StreamFinality ==
    /\ stream # <<>> => stream[1].type = "execution_start"
    /\ CountType("execution_start") <= 1
    /\ CountType("execution_complete") <= 1
    /\ \A i \in DOMAIN stream :
            stream[i].type = "execution_complete" => i = Len(stream)
    /\ gen_pc \in {"complete", "closed"} =>
            /\ CountType("execution_start") = 1
            /\ CountType("execution_complete") = 1
            /\ stream[Len(stream)].type = "execution_complete"
C5_Witness ==
    /\ gen_pc = "closed"
    /\ CountType("heartbeat") >= 1
    /\ CountType("node_update") >= 2
    /\ stream[Len(stream)].status = "completed"

UpdatesFor(n) ==
    {i \in DOMAIN stream : stream[i].type = "node_update" /\ stream[i].node_id = n}

\* C6: in an execute_stream call every node that reaches a terminal status,
\* trigger nodes included, has exactly one node_update record delivered to the
\* observer, before execution_complete, under every interleaving of the
\* observer and the execution task.
C6_OneUpdatePerTerminalNode ==
    Started =>
        /\ \A n \in NodesOf : Cardinality(UpdatesFor(n)) <= 1
        /\ CountType("execution_complete") = 1 =>
                \A n \in NodesOf : TerminalNode(n) => Cardinality(UpdatesFor(n)) = 1

\* C7: once cancel_execution has returned True for the running execution (the
\* only way its status becomes cancelled), the status is cancelled in every
\* later state, also when execute returns; and an execution that execute has
\* returned in a terminal status is not mutated again.
C7_CancelledStaysCancelled ==
    [][Started =>
        /\ Execution.status = "cancelled" => executions'[ExecId].status = "cancelled"
        /\ (pc = "done" /\ Execution.status \in {"completed", "failed", "cancelled"})
                => executions'[ExecId] = Execution]_vars

\* C8: once cancel_execution has returned True (the status is cancelled), the
\* scheduling loop dispatches no further node: a node for which no task had
\* been created at that moment gets none, so it never enters status running.
C8_NoDispatchAfterCancel ==
    [][(Started /\ Execution.status = "cancelled") =>
        \A n \in NodesOf : node_pc[n] = "none" => node_pc'[n] = "none"]_vars

\* C9: cancel_execution(id) returns True, and sets the status to cancelled,
\* exactly when an execution with that id exists and its status is running;
\* otherwise it returns False and leaves the executions table unchanged (so a
\* second cancel returns False); nothing else makes a status cancelled.
C9_CancelExactlyWhenRunning ==
    [][/\ last_cancel' # last_cancel =>
            LET id == last_cancel'.id
                returned == last_cancel'.returned
            IN  /\ returned <=> (id \in DOMAIN executions
                                 /\ executions[id].status = "running")
                /\ returned => /\ DOMAIN executions' = DOMAIN executions
                               /\ executions'[id].status = "cancelled"
                               /\ \A other \in DOMAIN executions \ {id} :
                                      executions'[other] = executions[other]
                /\ ~returned => executions' = executions
       /\ (Started /\ Execution.status # "cancelled"
           /\ executions'[ExecId].status = "cancelled") =>
            /\ Execution.status = "running"
            /\ last_cancel' = [id |-> ExecId, returned |-> TRUE]]_vars
C9_Witness ==
    /\ Started
    /\ Execution.status = "cancelled"
    /\ last_cancel = [id |-> ExecId, returned |-> FALSE]
    /\ pc = "await"

\* C10: a failed node counts as completed for readiness: only terminal nodes
\* are in the completed set, failed ones among them, and when execute has
\* returned for a well-formed workflow every node was started and has ended,
\* and the status is completed even though some node failed (A -> B(failing)
\* -> C: B failed, C executed, workflow completed).
C10_FailedCountsAsCompleted ==
    Started =>
        /\ \A n \in completed : TerminalNode(n)
        /\ \A n \in NodesOf :
              (node_pc[n] = "done" /\ ~(pc = "await" /\ n \in Range(tasks)))
                  => n \in completed
        /\ (pc = "done" /\ WellFormed(workflow)) =>
              /\ Execution.status = "completed"
              /\ \A n \in NodesOf :
                    NodeExec(n).started_at # NoTime /\ TerminalNode(n)
C10_Witness ==
    /\ Started
    /\ workflow = WfChain
    /\ pc = "done"
    /\ Execution.status = "completed"
    /\ NodeExec("B").status = "failed"
    /\ NodeExec("C").status = "success"
    /\ NodeExec("C").started_at >= NodeExec("B").completed_at

\* C11: when the scheduling loop finds nothing ready and nothing running while
\* fewer nodes are completed than exist (which a cycle, or an edge from a
\* source that is no node, always leads to), execute returns the execution
\* with status failed and error "Workflow deadlock detected"; it does not
\* raise, and no other execution ends failed.
C11_DeadlockFails ==
    (Started /\ pc = "done") =>
        LET deadlock == LoopContinues(workflow, completed) IN
        /\ deadlock =>
              /\ running = {}
              /\ ReadyList(workflow, BuildExecutionGraph(workflow), completed,
                           running) = <<>>
              /\ Execution.status = "failed"
              /\ Execution.error = "Workflow deadlock detected"
              /\ Execution.completed_at # NoTime
        /\ ~WellFormed(workflow) => deadlock
        /\ Execution.status = "failed" => deadlock
C11_Witness ==
    /\ Started
    /\ workflow = WfCycle
    /\ pc = "done"
    /\ Execution.status = "failed"
    /\ Execution.error = "Workflow deadlock detected"
    /\ completed = {"A"}
    /\ NodeExec("B").status = "pending"
    /\ workflow_complete_fired = 1

\* the nodes whose skill_id the registry resolves
SkillNodes ==
    {n \in NodesOf : SkillFound(skill_registry, NodesById(workflow)[n].skill_id)}
SkillOf(n) == skill_registry[NodesById(workflow)[n].skill_id]

C18_TimeoutIsFailedAttempt ==
    Started =>
        \A n \in SkillNodes :
            last_outcome[n] = "timeout" =>
                /\ NodeExec(n).retry_count = attempt[n] + 1
                /\ node_pc[n] = IF attempt[n] < SkillOf(n).retry_count
                                THEN "backoff" ELSE "done"
                /\ node_pc[n] = "done" =>
                      /\ NodeExec(n).status = "failed"
                      /\ NodeExec(n).error =
                            "Execution timed out after "
                                \o ToString(SkillOf(n).timeout) \o "s"
                      /\ NodeExec(n).outputs = EmptyDict
                      /\ Len(NodeExec(n).logs) = 1
                      /\ NodeExec(n).completed_at # NoTime
                /\ Execution.status # "failed"
                /\ pc = "done" => Execution.status = "completed"
C18_Witness ==
    /\ Started
    /\ workflow = WfFan
    /\ pc = "done"
    /\ Execution.status = "completed"
    /\ last_outcome["B"] = "timeout"
    /\ invocations["B"] = 2
    /\ NodeExec("B").error = "Execution timed out after 1s"
    /\ NodeExec("A").status = "success"

\* the nodes that name a skill the registry does not resolve
UnresolvedNodes ==
    {n \in NodesOf : /\ NodesById(workflow)[n].skill_id # ""
                     /\ ~SkillFound(skill_registry, NodesById(workflow)[n].skill_id)}
\* the node_update records for n that the callback has queued
UpdatesEmitted(n) ==
    {u \in Range(update_queue) \cup Range(stream) :
        u.type = "node_update" /\ u.node_id = n}

\* C19: a node whose skill_id the registry does not resolve ends failed with
\* error "Skill not found: <id>"; no skill is invoked for it; the node_complete
\* callback is called for it (in a stream, a node_update with status failed is
\* queued); the workflow is not aborted: the other nodes are still run and the
\* execution ends completed.
C19_SkillNotFound ==
    Started =>
        \A n \in UnresolvedNodes :
            /\ invocations[n] = 0
            /\ node_pc[n] \in {"none", "created", "done"}
            /\ node_pc[n] = "done" =>
                  /\ NodeExec(n).status = "failed"
                  /\ NodeExec(n).error =
                        "Skill not found: " \o NodesById(workflow)[n].skill_id
                  /\ NodeExec(n).completed_at # NoTime
                  /\ gen_pc # "none" =>
                        \E u \in UpdatesEmitted(n) :
                            u.status = "failed" /\ u.error = NodeExec(n).error
            /\ Execution.status # "failed"
            /\ pc = "done" =>
                  /\ Execution.status = "completed"
                  /\ \A m \in NodesOf :
                        TerminalNode(m) /\ NodeExec(m).started_at # NoTime
C19_Witness ==
    /\ Started
    /\ workflow = WfFan
    /\ max_parallel_nodes = 1
    /\ pc = "done"
    /\ gen_pc = "closed"
    /\ Execution.status = "completed"
    /\ NodeExec("C").error = "Skill not found: no_such_skill"
    /\ \E i \in DOMAIN stream :
          /\ stream[i].type = "node_update"
          /\ stream[i].node_id = "C"
          /\ stream[i].status = "failed"
    /\ NodeExec("A").status = "success"
    /\ NodeExec("B").status = "success"

\* C20: for every node n that was executed, execution.context[n] is written and
\* equals node_executions[n].outputs; a trigger node without skill_id ends
\* with status success, empty outputs and context[n] = {}.
C20_ContextHoldsOutputs ==
    Started =>
        \A n \in NodesOf :
            node_pc[n] = "done" =>
                /\ n \in DOMAIN Execution.context
                /\ Execution.context[n] = NodeExec(n).outputs
                /\ NodesById(workflow)[n].skill_id = "" =>
                      /\ NodeExec(n).status = "success"
                      /\ NodeExec(n).outputs = EmptyDict

C22_TerminalAndNotifiedOnce ==
    Started =>
        /\ pc = "done" =>
              /\ Execution.status \in {"completed", "failed", "cancelled"}
              /\ Execution.completed_at # NoTime
              /\ workflow_complete_fired =
                    IF on_workflow_complete # None THEN 1 ELSE 0
        /\ pc # "done" => workflow_complete_fired = 0
C22_Witness ==
    /\ Started
    /\ pc = "done"
    /\ Execution.status = "cancelled"
    /\ workflow_complete_fired = 1
    /\ \E n \in NodesOf : node_pc[n] = "cancelled" /\ NodeExec(n).status = "running"
    /\ \E n \in NodesOf : NodeExec(n).status = "success"

\* C30: in a scheduling iteration that starts nodes, the nodes started are the
\* first k ready nodes in the order of the workflow's node list, in that
\* order, where a node is ready when it is neither completed nor running and
\* the sources of all edges into it are completed, and k is the smaller of the
\* number of ready nodes and max_parallel_nodes less the number of running
\* nodes; so no ready node is started ahead of a ready node before it in the
\* node list.
C30_DispatchInInsertionOrder ==
    [][ (tasks' # tasks /\ tasks' # <<>>) =>
            LET run_before == running' \ Range(tasks')
                IsReady(n) ==
                    /\ n \notin completed'
                    /\ n \notin run_before
                    /\ \A e \in workflow.edges :
                           e.target = n => e.source \in completed'
                ReadyPositions ==
                    {i \in DOMAIN workflow.nodes : IsReady(workflow.nodes[i].id)}
                k == Min(Cardinality(ReadyPositions),
                         max_parallel_nodes - Cardinality(run_before))
            IN  /\ Len(tasks') = k
                /\ \A j \in 1..k :
                       \E p \in ReadyPositions :
                           /\ Cardinality({q \in ReadyPositions : q <= p}) = j
                           /\ tasks'[j] = workflow.nodes[p].id
                /\ \A j \in DOMAIN tasks' : \A q \in ReadyPositions :
                       (\E p \in ReadyPositions :
                            p > q /\ workflow.nodes[p].id = tasks'[j])
                           => workflow.nodes[q].id \in Range(tasks')
      ]_vars
\* with room for one node, the first of two ready nodes has been started and
\* the second waits
C30_Witness ==
    /\ pc = "await"
    /\ max_parallel_nodes = 1
    /\ tasks = << "B" >>
    /\ "A" \in completed
    /\ "C" \notin completed \cup running
    /\ \A e \in workflow.edges : e.target = "C" => e.source = "A"
\* two ready nodes have been started in the order of the node list
C30_BothStarted ==
    /\ pc = "await"
    /\ tasks = << "B", "C" >>
    /\ running = {"B", "C"}

\* every edge of the workflow has both ends among its nodes
EdgesKnown(w) ==
    \A e \in w.edges : e.source \in Range(NodeIdSeq(w)) /\ e.target \in Range(NodeIdSeq(w))

\* C31: once execute has been called on a workflow that is acyclic and whose
\* edges reference nodes, with max_parallel_nodes >= 1, it returns in the end
\* with status completed and every node in a terminal status, its task ended;
\* and no node is given a task a second time.
C31_ExecuteCompletes ==
    /\ (pc # "idle" /\ WellFormed(workflow) /\ EdgesKnown(workflow)
            /\ max_parallel_nodes >= 1)
           ~> (/\ pc = "done"
               /\ Execution.status = "completed"
               /\ \A n \in NodesOf : node_pc[n] = "done" /\ TerminalNode(n))
    /\ [][\A n \in AllNodeIds :
              (node_pc'[n] = "created" /\ node_pc[n] # "created") => node_pc[n] = "none"]_vars
\* the diamond has run to its end with room for two nodes, and the chain
\* after a retry of its second node
C31_Witness ==
    /\ pc = "done"
    /\ workflow \in {WfDiamond, WfChain}
    /\ workflow = WfDiamond => max_parallel_nodes = MaxParallel
    /\ workflow = WfChain => attempt["B"] = 1
    /\ Execution.status = "completed"
    /\ \A n \in NodesOf : node_pc[n] = "done" /\ TerminalNode(n)

\* the task of node n takes a step
NodeTaskStep(n) ==
    node_pc[n] \in {"created", "exec", "backoff"} /\ node_pc'[n] # node_pc[n]
\* the scheduling loop takes a step
SchedulerStep == pc' # pc \/ awaiting' # awaiting \/ tasks' # tasks
\* the entry of m in the context of execution ex (a list of at most one)
ContextEntry(ex, m) == IF m \in DOMAIN ex.context THEN << ex.context[m] >> ELSE <<>>

\* C32: a step of the task of node n leaves node_executions[m] and context[m]
\* as they are for every other node m, and leaves the completed and running
\* sets as they are; these sets change in steps of the scheduling loop only.
C32_NodeTaskFrame ==
    [][ /\ \A n \in AllNodeIds :
               NodeTaskStep(n) =>
                   /\ \A m \in NodesOf \ {n} :
                          /\ executions'[ExecId].node_executions[m] = NodeExec(m)
                          /\ ContextEntry(executions'[ExecId], m) = ContextEntry(Execution, m)
                   /\ completed' = completed
                   /\ running' = running
        /\ (completed' # completed \/ running' # running) => SchedulerStep
      ]_vars
\* two node tasks that ran side by side have both written their entries
C32_Witness ==
    /\ pc = "await"
    /\ running = {"B", "C"}
    /\ node_pc["B"] = "done"
    /\ node_pc["C"] = "done"
    /\ {"B", "C"} \subseteq DOMAIN Execution.context
    /\ NodeExec("B").status = "success"
    /\ NodeExec("C").status = "failed"

\* C33: when an iteration of the scheduling loop starts nodes, no node was
\* running before, so the running set is the set of the nodes just started;
\* a node is given a task only when no task of an earlier iteration is still
\* in flight, though it may have been ready before; the loop never sleeps on
\* "nothing ready, something running"; and it is left with nothing running.
C33_RunningEmptyAtLoopTop ==
    /\ [](pc # "sleep")
    /\ []((pc \in {"done", "spin"}) => running = {})
    /\ [][ /\ tasks' # tasks => running' = Range(tasks')
           /\ \A n \in AllNodeIds :
                  (node_pc'[n] = "created" /\ node_pc[n] # "created") =>
                      \A m \in AllNodeIds : node_pc[m] \in {"none", "done"}
         ]_vars
\* C is ready, its only dependency A having ended, and is not started while
\* B of the same iteration as A is in flight
C33_Witness ==
    /\ workflow = WfStagger
    /\ pc = "await"
    /\ tasks = << "A", "B" >>
    /\ node_pc["A"] = "done"
    /\ node_pc["B"] = "exec"
    /\ node_pc["C"] = "none"
    /\ NodeExec("C").status = "pending"

\* how far a NodeExecution status is along pending -> running -> terminal
StatusRank(status) ==
    CASE status = "pending" -> 0
      [] status = "running" -> 1
      [] status \in {"success", "failed"} -> 2

\* C34: the status of a NodeExecution is pending, running, success or failed,
\* and a step moves it forward along pending -> running -> {success, failed}
\* or leaves it: a terminal status never changes, and a node leaves pending
\* once, when its only task first runs. The completed and running sets are
\* disjoint, and the completed set only grows.
C34_StatusMonotonic ==
    /\ [](completed \cap running = {})
    /\ [](Started => \A n \in NodesOf :
                         NodeExec(n).status \in {"pending", "running", "success", "failed"})
    /\ [][ /\ completed \subseteq completed'
           /\ Started =>
                  \A n \in NodesOf :
                      LET before == NodeExec(n).status
                          after == executions'[ExecId].node_executions[n].status
                      IN  /\ StatusRank(before) <= StatusRank(after)
                          /\ StatusRank(before) = 2 => after = before
                          /\ (before = "pending" /\ after # "pending") =>
                                 node_pc[n] = "created"
           /\ \A n \in AllNodeIds :
                  (node_pc'[n] = "created" /\ node_pc[n] # "created") =>
                      /\ node_pc[n] = "none"
                      /\ executions'[ExecId].node_executions[n].status = "pending"
         ]_vars
\* a node that was retried has ended failed, after a node that ended in
\* success, while a third is still pending
C34_Witness ==
    /\ Started
    /\ workflow = WfChain
    /\ NodeExec("A").status = "success"
    /\ NodeExec("B").status = "failed"
    /\ NodeExec("B").retry_count > 0
    /\ NodeExec("C").status = "pending"
    /\ completed = {"A"}

\* C35: whatever max_parallel_nodes is, an iteration of the scheduling loop
\* with a non-empty ready list starts a node: the loop is never at the point
\* where it repeats with the completed, running and ready sets as they were
C35_EveryIterationStartsANode == pc # "spin"
\* with max_parallel_nodes = 0 the loop repeats without starting the ready
\* node and without suspending
C35_SpinsWithZero ==
    /\ pc = "spin"
    /\ max_parallel_nodes = 0
    /\ completed = {}
    /\ running = {}
    /\ tasks = <<>>
    /\ Execution.status = "running"
    /\ \A n \in NodesOf : NodeExec(n).status = "pending"

\* C38: the inputs synthesized for a node are determined by the node's
\* parameters and the outputs of the completed nodes: whatever order the
\* completed set is traversed in, the node gets the same inputs, also for a
\* key that two completed nodes both output.
C38_InputsDetermined ==
    Started =>
        \A n \in SkillNodes :
            node_pc[n] \in {"exec", "backoff", "done"} =>
                PrepareInputs(NodesById(workflow)[n], Execution, prepared_from[n])
                    = {NodeExec(n).inputs}
\* B and C of the diamond both output the key result, and D was given the
\* value of C in one run and could have been given that of B
C38_OrderDecides ==
    /\ Started
    /\ workflow = WfDiamond
    /\ node_pc["D"] = "exec"
    /\ prepared_from["D"] = {"A", "B", "C"}
    /\ NodeExec("B").outputs = [result |-> "B"]
    /\ NodeExec("C").outputs = [result |-> "C"]
    /\ NodeExec("D").inputs = [result |-> "C"]
    /\ [result |-> "B"] \in PrepareInputs(NodesById(workflow)["D"], Execution,
                                          prepared_from["D"])

\* the step in which an attempt of skill.execute for n ends by raising
SkillRaises(n) ==
    /\ Started
    /\ n \in NodesOf
    /\ node_pc[n] = "exec"
    /\ last_outcome'[n] \in {"raise", "raise_timeout"}

\* C40: when skill.execute raises, the node ends failed with the exception
\* message as its error and completed_at set, no further attempt is made
\* whatever the skill's retry_count, the node_complete callback is called,
\* and the workflow goes on (the execution is not ended by it).
C40_RaiseIsContained ==
    [][\A n \in AllNodeIds :
          SkillRaises(n) =>
              LET after == executions'[ExecId].node_executions[n]
              IN  /\ after.status = "failed"
                  /\ after.error = ExceptionMessage(last_outcome'[n])
                  /\ after.completed_at = now
                  /\ node_pc'[n] = "done"
                  /\ on_node_complete = "stream" =>
                        update_queue' = Append(update_queue, NodeUpdate(after))
                  /\ pc' = pc
                  /\ executions'[ExecId].status = Execution.status]_vars
\* the skill of B raised asyncio.TimeoutError in its first attempt, and the
\* node is in the backoff sleep before a second attempt
C40_TimeoutErrorRetried ==
    /\ Started
    /\ workflow = WfChain
    /\ last_outcome["B"] = "raise_timeout"
    /\ node_pc["B"] = "backoff"
    /\ attempt["B"] = 0
    /\ NodeExec("B").status = "running"

\* ---- the workflow manager
\* the manager has just returned from a call of op
Called(op) == manager_call' # manager_call /\ manager_call'.op = op
\* the stored ids other than id keep their documents
OthersKept(id) ==
    /\ DOMAIN manager_workflows' \ {id} = DOMAIN manager_workflows \ {id}
    /\ \A k \in DOMAIN manager_workflows \ {id} :
           manager_workflows'[k] = manager_workflows[k]

\* C23: the workflow store is a map keyed by id. save_workflow(doc) returns the
\* id under which the document is then stored: the document's own id, or an id
\* that was not stored before when the document has none; saving under a stored
\* id replaces that document and leaves the number of stored workflows as it
\* was. get_workflow(id) returns the stored document, or nothing when id is not
\* stored. delete_workflow(id) returns true exactly when id was stored, and id
\* is not stored afterwards, so that a following get returns nothing and a
\* following delete returns false.
C23_StoreIsMapKeyedById ==
    [][ /\ Called("save_workflow") =>
             LET id == manager_call'.returned
                 doc == manager_doc'[1]
             IN  /\ id \in DOMAIN manager_workflows'
                 /\ manager_workflows'[id].id = id
                 /\ manager_workflows'[id].nodes = doc.nodes
                 /\ manager_workflows'[id].edges = doc.edges
                 /\ Truthy(Get(doc, "id", None)) => id = doc.id
                 /\ ~Truthy(Get(doc, "id", None)) => id \notin DOMAIN manager_workflows
                 /\ OthersKept(id)
                 /\ id \in DOMAIN manager_workflows =>
                        Cardinality(DOMAIN manager_workflows') =
                            Cardinality(DOMAIN manager_workflows)
        /\ Called("get_workflow") =>
             LET id == manager_call'.id
             IN  /\ manager_workflows' = manager_workflows
                 /\ id \in DOMAIN manager_workflows =>
                        manager_doc' = << manager_workflows[id] >>
                 /\ id \notin DOMAIN manager_workflows =>
                        manager_call'.returned = None /\ manager_doc' = <<>>
        /\ Called("delete_workflow") =>
             LET id == manager_call'.id
             IN  /\ manager_call'.returned = "True" <=> id \in DOMAIN manager_workflows
                 /\ manager_call'.returned \in {"True", "False"}
                 /\ id \notin DOMAIN manager_workflows'
                 /\ OthersKept(id)
      ]_vars
\* a stored workflow has been saved again under its id, with another stored
\* beside it
C23_Witness ==
    /\ manager_call.op = "save_workflow"
    /\ manager_call.calls = MaxCalls
    /\ Cardinality(DOMAIN manager_workflows) = 2
    /\ manager_doc # <<>>
    /\ "created_at" \in DOMAIN manager_doc[1]

\* C24: run_workflow returns an execution for every id, stored or not: it
\* never raises
C24_RunWorkflowNeverRaises ==
    manager_call.op = "run_workflow" => manager_call.returned # "ValueError"
\* run_workflow has been called with an id that is not stored
C24_UnknownIdRaises ==
    /\ manager_call.op = "run_workflow"
    /\ manager_call.id \notin DOMAIN manager_workflows
    /\ manager_call.returned = "ValueError"
    /\ pc = "idle"
\* run_workflow of a stored workflow has returned its execution
C24_StoredIdReturns ==
    /\ manager_call.op = "run_workflow"
    /\ manager_call.id \in DOMAIN manager_workflows
    /\ pc = "done"
    /\ Execution.status = "completed"

\* ---- the skill registry
\* the registry has just returned from a call of op
RegistryCalled(op) == registry_call' # registry_call /\ registry_call'.op = op
\* the classes given to register under id, in the order of the calls
RegisteredUnder(id) == SelectSeq(registered, LAMBDA skill_class : skill_class.id = id)
\* the ids given to register, each at the place of its first registration
FirstInsertionOrder ==
    DictKeys([i \in DOMAIN registered |-> registered[i].id], {})
\* the ids of the standard skills
StandardSkillIds ==
    {"dynamic_planner", "data_extractor", "document_summarizer",
     "browser_operator", "wide_researcher", "http_request", "python_sandbox",
     "bash_commander", "file_manager", "n8n_webhook", "database_operator"}

\* C25: get(id) returns nothing exactly when no class was registered under id,
\* and otherwise an instance, constructed by this call, of the class that was
\* registered under id last. list_all returns one definition per registered
\* id, that of the class registered under it last, in the order in which the
\* ids were first registered; after startup these are the eleven standard
\* skills.
C25_RegistryLastWriteWins ==
    /\ registry_call.calls = 0 =>
           /\ Len(registry_skills) = 11
           /\ {registry_skills[i].key : i \in DOMAIN registry_skills} = StandardSkillIds
    /\ registry_call.op = "get" =>
           LET under == RegisteredUnder(registry_call.id)
           IN  /\ registry_returned = <<>> <=> under = <<>>
               /\ under # <<>> =>
                      /\ Len(registry_returned) = 1
                      /\ registry_returned[1].class = under[Len(under)].name
                      /\ registry_returned[1].serial = instance_count
    /\ registry_call.op = "list_all" =>
           /\ Len(registry_returned) = Len(FirstInsertionOrder)
           /\ \A i \in DOMAIN registry_returned :
                  LET under == RegisteredUnder(FirstInsertionOrder[i])
                  IN  /\ registry_returned[i].id = FirstInsertionOrder[i]
                      /\ registry_returned[i].class = under[Len(under)].name
           /\ registry_call.calls = 1 =>
                  {registry_returned[i].id : i \in DOMAIN registry_returned}
                      = StandardSkillIds
\* list_all has been called after the class of a standard skill was replaced
\* and a class was registered under a new id
C25_Witness ==
    /\ registry_call.op = "list_all"
    /\ Len(registry_returned) = 12
    /\ registry_returned[6].class = "MockHTTPSkill"
    /\ registry_returned[12].id = "custom"
\* get has returned an instance of the class registered last under an id
\* that two classes were registered under
C25_GetWitness ==
    /\ registry_call.op = "get"
    /\ registry_call.id = "custom"
    /\ Len(RegisteredUnder("custom")) = 2
    /\ registry_returned # <<>>

\* ---- the importer
\* the nodes and the connection items of the n8n document
N8nNodes == Get(n8n_data, "nodes", <<>>)
N8nConnections == Get(n8n_data, "connections", <<>>)
\* the lower-case type of the i-th n8n node
LowerType(i) == Lower(Get(N8nNodes[i], "type", ""))
\* the entry of the node-type table for the type, http_request without one
TableSkill(n8n_type) ==
    IF \E k \in DOMAIN N8N_TO_MANUS_ITEMS : N8N_TO_MANUS_ITEMS[k][1] = n8n_type
    THEN LET last == CHOOSE k \in DOMAIN N8N_TO_MANUS_ITEMS :
                         /\ N8N_TO_MANUS_ITEMS[k][1] = n8n_type
                         /\ \A j \in DOMAIN N8N_TO_MANUS_ITEMS :
                                N8N_TO_MANUS_ITEMS[j][1] = n8n_type => j <= k
         IN  N8N_TO_MANUS_ITEMS[last][2]
    ELSE "http_request"

\* C26: every converted node is classified by the words its n8n type holds,
\* whatever their case: with trigger, webhook, cron or schedule it is a
\* trigger (skill trigger_webhook with webhook, trigger_manual without);
\* otherwise with if, switch or condition it is a condition with skill
\* dynamic_planner; otherwise with merge it is a merge with skill
\* data_extractor; otherwise it is a skill node with the skill of the
\* node-type table, http_request for a type that is not in it. The example
\* document gives the skill ids trigger_webhook, http_request, python_sandbox.
C26_NodeClassification ==
    \A c \in DOMAIN converted :
        /\ Len(converted[c].nodes) = Len(N8nNodes)
        /\ \A i \in DOMAIN N8nNodes :
               LET node == converted[c].nodes[i]
                   is_trigger == ContainsAny(LowerType(i),
                                             {"trigger", "webhook", "cron", "schedule"})
                   is_condition == ContainsAny(LowerType(i), {"if", "switch", "condition"})
                   is_merge == Contains(LowerType(i), "merge")
               IN  /\ is_trigger =>
                          /\ node.type = "trigger"
                          /\ node.skill_id = IF Contains(LowerType(i), "webhook")
                                             THEN "trigger_webhook" ELSE "trigger_manual"
                   /\ ~is_trigger /\ is_condition =>
                          node.type = "condition" /\ node.skill_id = "dynamic_planner"
                   /\ ~is_trigger /\ ~is_condition /\ is_merge =>
                          node.type = "merge" /\ node.skill_id = "data_extractor"
                   /\ ~is_trigger /\ ~is_condition /\ ~is_merge =>
                          /\ node.type = "skill"
                          /\ node.skill_id = TableSkill(Get(N8nNodes[i], "type", ""))
        /\ n8n_data \in ExampleDocs =>
               [i \in DOMAIN converted[c].nodes |-> converted[c].nodes[i].skill_id]
                   = << "trigger_webhook", "http_request", "python_sandbox" >>
\* a node whose type holds a trigger word and, inside another word, a
\* condition word has been converted
C26_Witness ==
    /\ converted # <<>>
    /\ N8nNodes # <<>>
    /\ N8nNodes[1].type = "n8n-nodes-base.shopifyTrigger"
    /\ converted[1].nodes[1].type = "trigger"
    /\ converted[1].nodes[1].skill_id = "trigger_manual"

\* the targets the connections list: item, output list and place in it
ListedTargets ==
    UNION {UNION {{<< s, o, k >> : k \in DOMAIN N8nConnections[s].value.main[o]} :
                     o \in DOMAIN N8nConnections[s].value.main} :
              s \in {x \in DOMAIN N8nConnections :
                        "main" \in DOMAIN N8nConnections[x].value}}
\* t is listed before u
ListedBefore(t, u) ==
    \/ t[1] < u[1]
    \/ t[1] = u[1] /\ t[2] < u[2]
    \/ t[1] = u[1] /\ t[2] = u[2] /\ t[3] < u[3]
\* the place of the listed target t among all of them
PlaceOf(t) == 1 + Cardinality({u \in ListedTargets : ListedBefore(u, t)})
\* the ids the converted workflow wf has for the n8n nodes named name
IdsNamed(wf, name) ==
    {wf.nodes[i].id : i \in {j \in DOMAIN N8nNodes :
                                 "name" \in DOMAIN N8nNodes[j] /\ N8nNodes[j].name = name}}
\* the names the connections use
NamesUsed ==
    {N8nConnections[t[1]].key : t \in ListedTargets}
    \cup {Get(N8nConnections[t[1]].value.main[t[2]][t[3]], "node", "") : t \in ListedTargets}

\* C27: the edges of a converted workflow are, one for one, the targets that
\* the connections list; the edge of a target has output_index the index of
\* the output list holding it (from 0), and as source and target the id of a
\* node with the source name and of a node with the target name, where nodes
\* have these names. When all names the connections use are names of nodes,
\* every edge has both ends among the nodes of the workflow.
C27_OneEdgePerTarget ==
    \A c \in DOMAIN converted :
        LET wf == converted[c]
            node_ids == {wf.nodes[i].id : i \in DOMAIN wf.nodes}
        IN  /\ Len(wf.edges) = Cardinality(ListedTargets)
            /\ \A t \in ListedTargets :
                   LET edge == wf.edges[PlaceOf(t)]
                       source_name == N8nConnections[t[1]].key
                       target_name == Get(N8nConnections[t[1]].value.main[t[2]][t[3]],
                                          "node", "")
                   IN  /\ edge.output_index = t[2] - 1
                       /\ IdsNamed(wf, source_name) # {} =>
                              edge.source \in IdsNamed(wf, source_name)
                       /\ IdsNamed(wf, target_name) # {} =>
                              edge.target \in IdsNamed(wf, target_name)
            /\ (\A name \in NamesUsed : IdsNamed(wf, name) # {}) =>
                   \A e \in DOMAIN wf.edges :
                       wf.edges[e].source \in node_ids /\ wf.edges[e].target \in node_ids
\* a document whose connections use node names only, with two sources, a
\* second output and two targets of one output, has been converted
C27_Witness ==
    /\ converted # <<>>
    /\ Len(N8nConnections) = 2
    /\ Len(converted[1].edges) = 4
    /\ \A name \in NamesUsed : IdsNamed(converted[1], name) # {}
    /\ converted[1].edges[2].output_index = 1
    /\ converted[1].edges[4].target = "node_c"

\* C28: all calls of convert_n8n_to_manus on a document return the same
\* workflow, also for a document without workflow id or node ids
C28_SameDocumentSameWorkflow ==
    \A c, d \in DOMAIN converted : converted[c] = converted[d]
\* two conversions of a document without workflow id differ in the id
C28_FreshIdsDiffer ==
    /\ Len(converted) = 2
    /\ "id" \notin DOMAIN n8n_data
    /\ converted[1].id # converted[2].id
    /\ converted[1].nodes = converted[2].nodes

\* C29: the import of a document whose conversion the validator has errors
\* for answers with these errors
C29_ImportReportsValidatorErrors ==
    import_response # <<>> =>
        (ValidateManusWorkflow(manager_doc[1]) # <<>> =>
             "errors" \in DOMAIN import_response[1])
\* a conversion without trigger node has been imported and stored
C29_InvalidWorkflowStored ==
    /\ import_response # <<>>
    /\ ValidateManusWorkflow(manager_doc[1]) = << "Workflow has no trigger nodes" >>
    /\ import_response[1].id \in DOMAIN manager_workflows
    /\ import_response[1].message = "n8n workflow imported successfully"

\* ---- the parser module
Validated == "validate_manus_workflow" \in called
Ordered == "get_execution_order" \in called
DocNodes == Get(document, "nodes", <<>>)
DocIds == {DocNodes[i].id : i \in DOMAIN DocNodes}
DocEdgeList == Get(document, "edges", <<>>)
DocEdges == Range(DocEdgeList)
\* some node of the document lies on a cycle of its edges
DocCyclic ==
    \E n \in DocIds : PathWithin([edges |-> DocEdges], n, n, Cardinality(DocIds))
DocEdgesKnown == \A e \in DocEdges : e.source \in DocIds /\ e.target \in DocIds
\* how often the message is in the returned list of errors
ErrorCount(message) == Cardinality({i \in DOMAIN errors : errors[i] = message})
EndNames == {"A", "B", "C", "Y", "Z"}

\* C12: validate_manus_workflow returns at least one error for every workflow
\* whose graph contains a cycle.
C12_CycleReported == (Validated /\ DocCyclic) => errors # <<>>

\* C13: validate_manus_workflow returns an error "Duplicate node ID: X" for
\* every repeated occurrence of a node id X, and for every edge whose source
\* (target) is not the id of a node an error "Edge references unknown source:
\* X" ("Edge references unknown target: Y").
C13_DuplicatesAndDanglingEdges ==
    Validated =>
        \A x \in EndNames :
            /\ ErrorCount("Duplicate node ID: " \o x) =
                  Max(Cardinality({i \in DOMAIN DocNodes : DocNodes[i].id = x}) - 1, 0)
            /\ ErrorCount("Edge references unknown source: " \o x) =
                  Cardinality({i \in DOMAIN DocEdgeList :
                                  DocEdgeList[i].source = x /\ x \notin DocIds})
            /\ ErrorCount("Edge references unknown target: " \o x) =
                  Cardinality({i \in DOMAIN DocEdgeList :
                                  DocEdgeList[i].target = x /\ x \notin DocIds})
C13_Witness ==
    /\ Validated
    /\ ErrorCount("Duplicate node ID: A") = 1
    /\ ErrorCount("Edge references unknown source: Z") = 1
    /\ ErrorCount("Edge references unknown target: Y") = 2
    /\ Len(errors) = 4

\* C14: validate_manus_workflow returns the empty list only for workflows in
\* which id is present and non-empty, name is present, nodes is non-empty,
\* triggers is non-empty, and every node whose type is not trigger carries a
\* non-empty skill_id.
C14_EmptyOnlyIfComplete ==
    (Validated /\ errors = <<>>) =>
        /\ "id" \in DOMAIN document /\ Truthy(document.id)
        /\ "name" \in DOMAIN document
        /\ "nodes" \in DOMAIN document /\ document.nodes # <<>>
        /\ "triggers" \in DOMAIN document /\ document.triggers # <<>>
        /\ \A i \in DOMAIN DocNodes :
              Get(DocNodes[i], "type", None) # "trigger" =>
                  /\ "skill_id" \in DOMAIN DocNodes[i]
                  /\ Truthy(DocNodes[i].skill_id)

\* the workflow handed to execute has a node on a cycle of its edges
Cyclic(w) ==
    \E n \in Range(NodeIdSeq(w)) :
        PathWithin(w, n, n, Cardinality(Range(NodeIdSeq(w))))
\* C15: when execute is given a workflow whose graph contains a cycle, no node
\* of it is started (every node stays pending, no task is created for it) and
\* no skill is invoked.
C15_CyclicWorkflowRefused ==
    (Started /\ Cyclic(workflow)) =>
        \A n \in NodesOf :
            /\ NodeExec(n).status = "pending"
            /\ node_pc[n] = "none"
            /\ invocations[n] = 0

\* C16: for a workflow whose graph is acyclic and whose edges all reference
\* nodes, get_execution_order returns every node id exactly once, the source
\* of every edge before its target; when the graph has a cycle it returns
\* fewer ids than there are nodes.
C16_ExecutionOrder ==
    (Ordered /\ DocEdgesKnown) =>
        /\ raised = None
        /\ IF DocCyclic
           THEN Len(execution_order) < Cardinality(DocIds)
           ELSE /\ Range(execution_order) = DocIds
                /\ Len(execution_order) = Cardinality(DocIds)
                /\ \A e \in DocEdges :
                      \E i, j \in DOMAIN execution_order :
                          /\ i < j
                          /\ execution_order[i] = e.source
                          /\ execution_order[j] = e.target
C16_Witness ==
    /\ Ordered
    /\ [i \in DOMAIN DocNodes |-> DocNodes[i].id] = << "C", "B", "A" >>
    /\ DocEdgeList = << Edge("B", "C"), Edge("A", "C"), Edge("A", "B") >>
    /\ execution_order = << "A", "B", "C" >>

\* C39: every node the importer produces has no skill_id or a skill_id that
\* the skill registry resolves after startup (so that the runner, which fails
\* a node whose skill_id the registry does not resolve with "Skill not
\* found", never does so for an imported node, trigger nodes included).
C39_ImportedSkillsResolve ==
    \A i \in DOMAIN converted :
        \A k \in DOMAIN converted[i].nodes :
            LET skill_id == converted[i].nodes[k].skill_id
            IN  skill_id = "" \/ DictGetItem(registry_skills, skill_id) # <<>>
\* an imported trigger node carries the skill_id trigger_webhook, under which
\* nothing is registered
C39_TriggerSkillUnknown ==
    \E i \in DOMAIN converted :
        \E k \in DOMAIN converted[i].nodes :
            /\ converted[i].nodes[k].type = "trigger"
            /\ converted[i].nodes[k].skill_id = "trigger_webhook"
            /\ DictGetItem(registry_skills, "trigger_webhook") = <<>>
            /\ DictGetItem(registry_skills, "http_request") # <<>>

\* ------------------------------------------ calls that overlap on one runner
\* the node_update records call c has yielded to its observer
NodeUpdatesOf(c) ==
    {calls[c].stream[i] : i \in {j \in 1..Len(calls[c].stream) :
                                    calls[c].stream[j].type = "node_update"}}
\* every such record is of a node of the call's own execution, with its id
DeliveredOwnOnly(c) ==
    \A r \in NodeUpdatesOf(c) :
        r.node_id \in Range(CallNodes[c]) /\ r.execution_id = CallExecId[c]
\* the call has yielded a record of every node of its own execution
DeliveredAllOwn(c) ==
    \A n \in Range(CallNodes[c]) : \E r \in NodeUpdatesOf(c) : r.node_id = n
\* both calls have been made, and their times on the runner overlapped
Overlapped == \A c \in Calls : calls[c].kind # "none" /\ calls[c].completed > 0

\* C36: when two calls overlap on one runner, every node_update record a
\* stream yields is of a node its own execution completed and carries that
\* execution's id, and a stream that has ended has yielded the node_update
\* records of all of its own nodes.
C36_StreamsYieldOwnNodes ==
    \A c \in Calls :
        calls[c].kind = "execute_stream" =>
            /\ DeliveredOwnOnly(c)
            /\ calls[c].gen_pc = "closed" => DeliveredAllOwn(c)
\* the stream of call 2 has yielded a record of node A, which the execution
\* of call 1 completed, under the execution id of call 2
C36_ForeignNodeYielded ==
    /\ calls[1].kind = "execute_stream"
    /\ \E r \in NodeUpdatesOf(2) : r.node_id = "A" /\ r.execution_id = "exec_2"

\* the calls have all been made and have all ended
AllCallsEnded ==
    \A c \in Calls :
        \/ calls[c].kind = "execute_stream" /\ calls[c].gen_pc = "closed"
        \/ calls[c].kind = "execute" /\ calls[c].task = "done"

\* C37: once every call has ended, the runner's node_complete callback is the
\* one that was registered before the first call started.
C37_CallbackRestored == AllCallsEnded => shared_callback = registered_callback
\* both streams have ended and the on_node_update of the first one is what the
\* runner holds
C37_PrivateCallbackLeft ==
    /\ AllCallsEnded
    /\ shared_callback = OnNodeUpdate[1]
    /\ registered_callback = "user"
====
